---- MODULE Spec2Model ----
(***************************************************************************)
(* CloseNotice: the daily stock-news pipeline.                             *)
(*                                                                         *)
(*   StockAnalysisPipeline.run         src/src/main.py                     *)
(*   FinnhubClient.batch_fetch_news    src/src/data/finnhub_client.py      *)
(*   GroqClient.analyze_*_sentiment    src/src/analysis/groq_client.py     *)
(*   SentimentLogger.append_result     src/src/storage/csv_logger.py       *)
(*   TelegramClient.send_*             src/src/delivery/telegram_client.py *)
(*   send_critical_alert               src/src/utils/error_handler.py      *)
(*                                                                         *)
(* Text is modelled as a sequence of one-character strings, so that        *)
(* slicing, lower-casing and substring search are computed, not assumed.   *)
(***************************************************************************)
EXTENDS Integers, Sequences, FiniteSets, TLC

(***************************************************************************)
(* Text helpers (Python str operations used by the code).                  *)
(***************************************************************************)
UpperLetters == <<"A","B","C","D","E","F","G","H","I","J","K","L","M",
                  "N","O","P","Q","R","S","T","U","V","W","X","Y","Z">>

LowerLetters == <<"a","b","c","d","e","f","g","h","i","j","k","l","m",
                  "n","o","p","q","r","s","t","u","v","w","x","y","z">>

Digits == {"0","1","2","3","4","5","6","7","8","9"}

Range(s) == {s[i] : i \in DOMAIN s}

UpperSet == Range(UpperLetters)

LowerSet == Range(LowerLetters)

IndexOf(c, letters) == CHOOSE i \in DOMAIN letters : letters[i] = c

\* str.lower()
Lower(s) ==
    [i \in DOMAIN s |->
        IF s[i] \in UpperSet
        THEN LowerLetters[IndexOf(s[i], UpperLetters)] ELSE s[i]]

\* str.upper()
Upper(s) ==
    [i \in DOMAIN s |->
        IF s[i] \in LowerSet
        THEN UpperLetters[IndexOf(s[i], LowerLetters)] ELSE s[i]]

\* s[:n]
Take(s, n) == SubSeq(s, 1, IF Len(s) < n THEN Len(s) ELSE n)

\* sub in s
Contains(sub, s) ==
    \E i \in 0..(Len(s) - Len(sub)) :
        \A j \in 1..Len(sub) : s[i + j] = sub[j]

\* str.strip() of blanks
RECURSIVE Strip(_)
Strip(s) ==
    IF s = <<>> THEN s
    ELSE IF Head(s) = " " THEN Strip(Tail(s))
    ELSE IF s[Len(s)] = " " THEN Strip(SubSeq(s, 1, Len(s) - 1))
    ELSE s

Pad(n) == [i \in 1..n |-> "x"]

(***************************************************************************)
(* Settings (src/src/config/settings.py).                                  *)
(***************************************************************************)
MAX_ARTICLES_PER_TICKER == 2

MAX_RETRIES == 5

MAX_SUMMARY_LENGTH == 200

\* stop_after_attempt(3) of GroqClient._call_llm
LLM_MAX_ATTEMPTS == 3

(***************************************************************************)
(* Bounds of the model.                                                    *)
(***************************************************************************)
\* longest article list one provider response carries
MaxFetched == 3

\* how far a generated summary overshoots MAX_SUMMARY_LENGTH
LongExtra == 50

(***************************************************************************)
(* Symbols.  A symbol is named by a TLA+ string; Text gives its characters.*)
(***************************************************************************)
Funds == <<"FNILX", "FZILX">>

Stocks == <<"UURAF">>

Symbols == {"AAPL", "MSFT", "UURAF", "N/A"}

Text(sym) ==
    CASE sym = "AAPL"  -> <<"A","A","P","L">>
      [] sym = "MSFT"  -> <<"M","S","F","T">>
      [] sym = "UURAF" -> <<"U","U","R","A","F">>
      [] sym = "N/A"   -> <<"N","/","A">>
      [] sym = "FNILX" -> <<"F","N","I","L","X">>
      [] sym = "FZILX" -> <<"F","Z","I","L","X">>

\* TICKER_METADATA: symbol -> company name (a holding's name, the symbol
\* itself for an individually tracked stock or a nameless holding)
TICKER_METADATA(sym) ==
    CASE sym = "AAPL"  -> <<"A","p","p","l","e"," ","I","n","c">>
      [] sym = "MSFT"  -> <<"M","i","c","r","o","s","o","f","t">>
      [] OTHER         -> Text(sym)

\* TICKER_REGEX = ^[A-Z0-9.\-\:]{1,12}$ applied to ticker.strip().upper()
TickerAlphabet == UpperSet \cup Digits \cup {".", "-", ":"}

is_valid_ticker(sym) ==
    LET clean == Upper(Strip(Text(sym)))
    IN  /\ Text(sym) # <<>>
        /\ Len(clean) >= 1
        /\ Len(clean) <= 12
        /\ \A i \in DOMAIN clean : clean[i] \in TickerAlphabet

(***************************************************************************)
(* Articles the news provider may return for a symbol.  An absent          *)
(* 'headline' or 'summary' key reads as '' (article.get(key, '')).         *)
(***************************************************************************)
Markets == <<"M","a","r","k","e","t","s">>

\* the symbol in the headline
ArtHeadline(sym) ==
    [headline |-> Text(sym) \o <<" ","u","p">>, summary |-> <<>>]

\* the company name, in another case, at the start of an over-long summary
ArtLong(sym) ==
    [headline |-> Markets,
     summary  |-> Upper(TICKER_METADATA(sym)) \o Pad(MAX_SUMMARY_LENGTH + LongExtra)]

\* the symbol only across and after character 100 of the summary
ArtLate(sym) ==
    [headline |-> Markets, summary |-> Pad(98) \o Text(sym) \o Text(sym)]

\* neither the symbol nor the company anywhere
ArtNoise ==
    [headline |-> <<"E","x","c","e","l">>, summary |-> <<"t","i","p","s">>]

Pool(sym) == {ArtHeadline(sym), ArtLong(sym), ArtLate(sym), ArtNoise}

RECURSIVE SeqsUpTo(_, _)
SeqsUpTo(S, n) ==
    IF n = 0 THEN {<<>>}
    ELSE LET shorter == SeqsUpTo(S, n - 1)
         IN  shorter \cup {Append(q, x) : q \in {r \in shorter : Len(r) = n - 1}, x \in S}

\* every article list of at most MaxFetched articles
BatchFeed == [sym \in Symbols |-> SeqsUpTo(Pool(sym), MaxFetched)]

\* a provider response: an HTTP status, a transport exception, or a 200
\* whose body is a JSON list, is not JSON, or is a JSON object
StatusCodes == {429, 401, 403, 404, 500}

Responses(lists) ==
    {[kind |-> "status", code |-> c, articles |-> <<>>] : c \in StatusCodes}
    \cup {[kind |-> k, code |-> 200, articles |-> <<>>] : k \in {"badjson", "object"}}
    \cup {[kind |-> "exception", code |-> 0, articles |-> <<>>]}
    \cup {[kind |-> "json", code |-> 200, articles |-> a] : a \in lists}

NoResponse == [kind |-> "none", code |-> 0, articles |-> <<>>]

(***************************************************************************)
(* FinnhubClient (src/src/data/finnhub_client.py).                         *)
(***************************************************************************)
\* faulty variant: the whole summary is searched
Mentioned_whole_summary(sym, article) ==
    LET headline == Lower(article.headline)
        summary  == Lower(article.summary)
    IN  \/ Contains(Lower(Text(sym)), headline) \/ Contains(Lower(Text(sym)), summary)
        \/ Contains(Lower(TICKER_METADATA(sym)), headline)
        \/ Contains(Lower(TICKER_METADATA(sym)), summary)

\* the test of one article in _filter_relevant_articles
Mentioned(sym, article) ==
    LET headline == Lower(article.headline)
        summary  == Lower(Take(article.summary, 100))
        ticker_mentioned ==
            Contains(Lower(Text(sym)), headline) \/ Contains(Lower(Text(sym)), summary)
        company_mentioned ==
            \/ Contains(Lower(TICKER_METADATA(sym)), headline)
            \/ Contains(Lower(TICKER_METADATA(sym)), summary)
    IN  ticker_mentioned \/ company_mentioned

_filter_relevant_articles(sym, articles) ==
    SelectSeq(articles, LAMBDA a : Mentioned(sym, a))

\* faulty variant: the cap on the kept articles is dropped
KeepArticles_uncapped(relevant_articles) == relevant_articles

\* relevant_articles[:Settings.MAX_ARTICLES_PER_TICKER]
KeepArticles(relevant_articles) == Take(relevant_articles, MAX_ARTICLES_PER_TICKER)

\* the body of the try block of batch_fetch_news after a fetch returned
StoreNews(nd, sym, articles) ==
    IF articles # <<>>
    THEN LET relevant_articles == _filter_relevant_articles(sym, articles)
         IN  IF relevant_articles # <<>>
             THEN [x \in DOMAIN nd \cup {sym} |->
                       IF x = sym THEN KeepArticles(relevant_articles) ELSE nd[x]]
             ELSE nd
    ELSE nd

\* what one request of fetch_company_news ends in:
\*   "retry"  RateLimitError (tenacity retries while attempts remain)
\*   "auth"   APIAuthenticationError
\*   "empty"  return []
\*   "list"   return response.json()
\*   "object" return response.json(), a non-empty JSON object
RequestOutcome(resp) ==
    CASE resp.kind = "exception"            -> "empty"
      [] resp.code = 429                    -> "retry"
      [] resp.code \in {401, 403}           -> "auth"
      [] resp.code # 200                    -> "empty"
      [] resp.kind = "badjson"              -> "empty"
      [] resp.kind = "object"               -> "object"
      [] OTHER                              -> "list"

\* faulty variant: one attempt too many is allowed
RetryAgain_off_by_one(outcome, attempt_number) ==
    outcome = "retry" /\ attempt_number <= MAX_RETRIES

\* retry_if_exception_type(RateLimitError), stop_after_attempt(MAX_RETRIES)
RetryAgain(outcome, attempt_number) ==
    outcome = "retry" /\ attempt_number < MAX_RETRIES

\* faulty variant: the authentication failure is caught and skipped like any other
Propagates_never(exc) == FALSE

\* faulty variant: every exception is re-raised
Propagates_all(exc) == exc # "none"

\* faulty variant: the delay sits at the end of the try block, not in a finally clause
DelayAfter_try_only(exc) == IF exc = "none" THEN 1 ELSE 0

\* the except clauses of the loop body: only APIAuthenticationError is
\* re-raised, every other exception is logged and the loop continues
Propagates(exc) == exc = "APIAuthenticationError"

\* the finally clause of the loop body: time.sleep(API_CALL_DELAY) runs once
\* whatever exception, if any, left the try block
DelayAfter(exc) == 1

(***************************************************************************)
(* JSON values of an LLM answer.  A value is a record of one shape:        *)
(*   type "int"   n = the integer                                          *)
(*   type "float" n = the number in tenths (109 is 10.9)                   *)
(*   type "str"   s = the characters                                       *)
(*   type "list"  items = the entries, each a string                       *)
(*   type "null"                                                           *)
(* A JSON object is a function from its keys to values.                    *)
(***************************************************************************)
JInt(n) == [type |-> "int", n |-> n, s |-> <<>>, items |-> <<>>]

JFloat(tenths) == [type |-> "float", n |-> tenths, s |-> <<>>, items |-> <<>>]

JStr(s) == [type |-> "str", n |-> 0, s |-> s, items |-> <<>>]

JList(items) == [type |-> "list", n |-> 0, s |-> <<>>, items |-> items]

JNull == [type |-> "null", n |-> 0, s |-> <<>>, items |-> <<>>]

EmptyObject == [k \in {} |-> JNull]

\* the object with key k set to value v
With(obj, k, v) == [x \in DOMAIN obj \cup {k} |-> IF x = k THEN v ELSE obj[x]]

\* dict.get(key, default)
Get(obj, k, default) == IF k \in DOMAIN obj THEN obj[k] ELSE default

\* an exception: its class, its message, and what the message carries
Raise(type, msg, missing, raw) ==
    [type |-> type, msg |-> msg, missing |-> missing, raw |-> raw]

NoException == Raise("none", "", <<>>, JNull)

Returned(obj) == [raised |-> FALSE, value |-> obj, exc |-> NoException]

Raised(e) == [raised |-> TRUE, value |-> EmptyObject, exc |-> e]

InsufficientMarker ==
    <<"I","n","s","u","f","f","i","c","i","e","n","t"," ","D","a","t","a">>

(***************************************************************************)
(* GroqClient (src/src/analysis/groq_client.py).                           *)
(***************************************************************************)
DigitValue(c) ==
    CASE c = "0" -> 0 [] c = "1" -> 1 [] c = "2" -> 2 [] c = "3" -> 3 [] c = "4" -> 4
      [] c = "5" -> 5 [] c = "6" -> 6 [] c = "7" -> 7 [] c = "8" -> 8 [] c = "9" -> 9

RECURSIVE Decimal(_)
Decimal(s) ==
    IF s = <<>> THEN 0 ELSE 10 * Decimal(SubSeq(s, 1, Len(s) - 1)) + DigitValue(s[Len(s)])

\* int(x): [ok, n]; a float truncates toward zero, a string must be an
\* optionally signed, blank-padded run of digits, None and a list raise
IntOf(v) ==
    CASE v.type = "int"   -> [ok |-> TRUE, n |-> v.n]
      [] v.type = "float" -> [ok |-> TRUE,
                              n |-> IF v.n >= 0 THEN v.n \div 10 ELSE -((-v.n) \div 10)]
      [] v.type = "str"   ->
             LET t      == Strip(v.s)
                 signed == t # <<>> /\ Head(t) \in {"+", "-"}
                 digits == IF signed THEN Tail(t) ELSE t
             IN  IF digits # <<>> /\ \A i \in DOMAIN digits : digits[i] \in Digits
                 THEN [ok |-> TRUE,
                       n |-> IF signed /\ Head(t) = "-" THEN -Decimal(digits)
                             ELSE Decimal(digits)]
                 ELSE [ok |-> FALSE, n |-> 0]
      [] OTHER            -> [ok |-> FALSE, n |-> 0]

required_fields == <<"ticker", "sentiment_score", "top_insights", "rationale">>

\* faulty variant: no upper limit
ScoreInRange_no_upper(score) == 1 <= score

\* the score check of _validate_result (lines 147-154)
ScoreInRange(score) == 1 <= score /\ score <= 10

\* faulty variant: every insight is kept
KeepInsights_uncapped(insights) == insights

\* insights[:3] (line 162)
KeepInsights(insights) == Take(insights, 3)

\* faulty variant: 20 characters are not enough
RationaleOk_strict(rationale) == rationale.type = "str" /\ Len(rationale.s) > 20

\* the rationale check of _validate_result (lines 164-167)
RationaleOk(rationale) == rationale.type = "str" /\ Len(rationale.s) >= 20

\* faulty variant: the rationale is checked before the score
_validate_result_rationale_first(result) ==
    LET missing  == SelectSeq(required_fields, LAMBDA f : f \notin DOMAIN result)
        score    == IntOf(result["sentiment_score"])
        insights == Get(result, "top_insights", JList(<<>>))
    IN  IF missing # <<>>
        THEN Raised(Raise("ValueError", "Missing required fields", missing, JNull))
        ELSE IF ~RationaleOk(Get(result, "rationale", JStr(<<>>)))
        THEN Raised(Raise("ValueError", "Rationale too short or not a string",
                          <<>>, JNull))
        ELSE IF ~score.ok \/ ~ScoreInRange(score.n)
        THEN Raised(Raise("ValueError", "Invalid sentiment_score", <<>>,
                          result["sentiment_score"]))
        ELSE IF insights.type # "list" \/ Len(insights.items) = 0
        THEN Raised(Raise("ValueError", "top_insights must be a non-empty list",
                          <<>>, JNull))
        ELSE Returned(With(With(result, "sentiment_score", JInt(score.n)),
                           "top_insights", JList(KeepInsights(insights.items))))

_validate_result(result) ==
    LET missing  == SelectSeq(required_fields, LAMBDA f : f \notin DOMAIN result)
        score    == IntOf(result["sentiment_score"])
        insights == Get(result, "top_insights", JList(<<>>))
    IN  IF missing # <<>>
        THEN Raised(Raise("ValueError", "Missing required fields", missing, JNull))
        ELSE IF ~score.ok \/ ~ScoreInRange(score.n)
        THEN Raised(Raise("ValueError", "Invalid sentiment_score", <<>>,
                          result["sentiment_score"]))
        ELSE IF insights.type # "list" \/ Len(insights.items) = 0
        THEN Raised(Raise("ValueError", "top_insights must be a non-empty list",
                          <<>>, JNull))
        ELSE IF ~RationaleOk(Get(result, "rationale", JStr(<<>>)))
        THEN Raised(Raise("ValueError", "Rationale too short or not a string",
                          <<>>, JNull))
        ELSE Returned(With(With(result, "sentiment_score", JInt(score.n)),
                           "top_insights", JList(KeepInsights(insights.items))))

(***************************************************************************)
(* The text of an LLM answer is a sequence of tokens:                      *)
(*   "obj"    the text of a JSON object {...}, v = the object              *)
(*   "arr"    the text of a JSON array, holding no brace                   *)
(*   "fence"  ```          "tag"  the word json                            *)
(*   "open"   a lone {     "close" a lone }                                *)
(*   "noise"  any other words                                              *)
(***************************************************************************)
Tok(t) == [t |-> t, v |-> EmptyObject]

ObjTok(obj) == [t |-> "obj", v |-> obj]

\* json.loads: [ok, dict, value]; the text must be one JSON value
json_loads(text) ==
    IF Len(text) = 1 /\ text[1].t = "obj"
    THEN [ok |-> TRUE, dict |-> TRUE, value |-> text[1].v]
    ELSE IF Len(text) = 1 /\ text[1].t = "arr"
    THEN [ok |-> TRUE, dict |-> FALSE, value |-> EmptyObject]
    ELSE [ok |-> FALSE, dict |-> FALSE, value |-> EmptyObject]

Opens(tok) == tok.t \in {"obj", "open"}

Closes(tok) == tok.t \in {"obj", "close"}

\* a span i..k of the text that matches \{.*\}
BraceSpan(text, i, k) ==
    /\ i \in DOMAIN text /\ k \in DOMAIN text
    /\ Opens(text[i]) /\ Closes(text[k])
    /\ i < k \/ (i = k /\ text[i].t = "obj")

\* faulty variant: only a block tagged json is recognised
CodeBlockSpans_tag_required(text) ==
    {<<i, k>> \in (DOMAIN text) \X (DOMAIN text) :
        /\ BraceSpan(text, i, k)
        /\ k + 1 \in DOMAIN text /\ text[k + 1].t = "fence"
        /\ i - 2 \in DOMAIN text
        /\ text[i - 1].t = "tag" /\ text[i - 2].t = "fence"}

\* re.search(r'```(?:json)?\s*(\{.*?\})\s*```'): the spans <<i, k>> of group 1
\* of every match; the leftmost start and then the shortest span is the match
CodeBlockSpans(text) ==
    {<<i, k>> \in (DOMAIN text) \X (DOMAIN text) :
        /\ BraceSpan(text, i, k)
        /\ k + 1 \in DOMAIN text /\ text[k + 1].t = "fence"
        /\ \/ i - 1 \in DOMAIN text /\ text[i - 1].t = "fence"
           \/ /\ i - 2 \in DOMAIN text
              /\ text[i - 1].t = "tag" /\ text[i - 2].t = "fence"}

FirstSpan(spans) ==
    CHOOSE m \in spans :
        \A o \in spans : m[1] < o[1] \/ (m[1] = o[1] /\ m[2] <= o[2])

\* re.search(r'\{.*\}'): the first { through the last }
GreedySpans(text) ==
    {<<i, k>> \in (DOMAIN text) \X (DOMAIN text) :
        /\ BraceSpan(text, i, k)
        /\ \A j \in DOMAIN text : Opens(text[j]) => i <= j
        /\ \A j \in DOMAIN text : Closes(text[j]) /\ j >= i => j <= k}

NoJson == Raise("ValueError", "No valid JSON found in LLM response", <<>>, JNull)

\* [raised, dict, value, exc]: direct parse, then the code block, then the braces
parse_llm_response(response_text) ==
    LET direct == json_loads(response_text)
        blocks == CodeBlockSpans(response_text)
        block  == IF blocks = {} THEN [ok |-> FALSE, dict |-> FALSE, value |-> EmptyObject]
                  ELSE LET m == FirstSpan(blocks)
                       IN  json_loads(SubSeq(response_text, m[1], m[2]))
        braces == GreedySpans(response_text)
        greedy == IF braces = {} THEN [ok |-> FALSE, dict |-> FALSE, value |-> EmptyObject]
                  ELSE LET m == CHOOSE x \in braces : TRUE
                       IN  json_loads(SubSeq(response_text, m[1], m[2]))
        parsed == IF direct.ok THEN direct ELSE IF block.ok THEN block ELSE greedy
    IN  IF parsed.ok
        THEN [raised |-> FALSE, dict |-> parsed.dict, value |-> parsed.value,
              exc |-> NoException]
        ELSE [raised |-> TRUE, dict |-> FALSE, value |-> EmptyObject, exc |-> NoJson]

\* "Insufficient Data" in result.get('rationale', ''): "yes", "no", or
\* "TypeError" when the rationale is a number or null
MarkerIn(rationale) ==
    CASE rationale.type = "str"  ->
             IF Contains(InsufficientMarker, rationale.s) THEN "yes" ELSE "no"
      [] rationale.type = "list" ->
             IF \E i \in DOMAIN rationale.items : rationale.items[i] = InsufficientMarker
             THEN "yes" ELSE "no"
      [] OTHER -> "TypeError"

\* faulty variant: the record is validated before the rationale is looked at
AnalyzeResponse_validate_first(response_text) ==
    LET parsed    == parse_llm_response(response_text)
        validated == _validate_result(parsed.value)
    IN  IF parsed.raised THEN Raised(parsed.exc)
        ELSE IF validated.raised THEN validated
        ELSE IF MarkerIn(validated.value["rationale"]) = "yes"
        THEN Raised(Raise("InsufficientDataError", "Insufficient news data", <<>>, JNull))
        ELSE validated

\* lines 231-249 and 291-309, after _call_llm returned response_text
AnalyzeResponse(response_text) ==
    LET parsed == parse_llm_response(response_text)
        marker == MarkerIn(Get(parsed.value, "rationale", JStr(<<>>)))
    IN  IF parsed.raised THEN Raised(parsed.exc)
        ELSE IF ~parsed.dict
        THEN Raised(Raise("AttributeError", "'list' object has no attribute 'get'",
                          <<>>, JNull))
        ELSE IF marker = "TypeError"
        THEN Raised(Raise("TypeError", "argument is not iterable", <<>>, JNull))
        ELSE IF marker = "yes"
        THEN Raised(Raise("InsufficientDataError", "Insufficient news data", <<>>, JNull))
        ELSE _validate_result(parsed.value)

\* faulty variant: the summary is embedded whole
TruncateSummary_whole(summary) == summary

\* faulty variant: the end of the summary is kept instead of its start
TruncateSummary_tail(summary) ==
    SubSeq(summary,
           IF Len(summary) < MAX_SUMMARY_LENGTH THEN 1
           ELSE Len(summary) - MAX_SUMMARY_LENGTH + 1,
           Len(summary))

\* article.get('summary', '')[:Settings.MAX_SUMMARY_LENGTH] (lines 204, 279)
TruncateSummary(summary) == Take(summary, MAX_SUMMARY_LENGTH)

\* the article records handed to format_*_prompt for one symbol's news
PromptArticles(sym, articles) ==
    [i \in DOMAIN articles |->
        [ticker   |-> sym,
         headline |-> articles[i].headline,
         summary  |-> TruncateSummary(articles[i].summary)]]

(***************************************************************************)
(* State.                                                                  *)
(***************************************************************************)
VARIABLES
    pc,               \* where the run is
    FUND_HOLDINGS,    \* tickers.FUND_HOLDINGS: fund -> set of held symbols
    ALL_TICKERS,      \* tickers.ALL_TICKERS: the symbol universe
    force_refresh,    \* "--refresh" in sys.argv
    funds_todo,       \* _fetch_fund_holdings: funds not yet visited
    todo,             \* batch_fetch_news: symbols not yet visited
    ticker,           \* batch_fetch_news: the symbol of the current iteration
    attempts,         \* fetch_company_news: requests made in the current call
    response,         \* the provider's answer to the latest request
    exc,              \* the exception that left the current try block
    news_data,        \* batch_fetch_news: symbol -> kept articles
    fetch_calls,      \* calls of fetch_company_news made by this batch
    delays,           \* time.sleep(API_CALL_DELAY) calls made by this batch
    targets,          \* _analyze_sentiment: targets not yet visited
    llm_attempts,     \* _call_llm: backend calls made so far in the current call
    prompt,           \* the article records given to the prompt of the current target
    results,          \* _analyze_sentiment: records of the targets that succeeded
    errors,           \* _analyze_sentiment: one record per failed target
    no_news_tickers,  \* _analyze_sentiment: targets absent from the news
    csv,              \* append_result calls made, in order, with their outcome
    sent,             \* messages handed to Telegram, in order
    retval,           \* what run returned, "none" while it runs
    today,            \* datetime.now() when batch_fetch_news starts
    window,           \* batch_fetch_news: lookback_hours, from_date, to_date
    requested,        \* the (from_date, to_date) pairs given to fetch_company_news
    invoked,          \* the targets analyze_*_sentiment was called for, in order
    arg,              \* a function called on its own: the function and its arguments
    out,              \* what that call returned or raised
    scraped,          \* _fetch_fund_holdings: the fund last visited and what get_holdings gave
    alerts,           \* what became of each send_critical_alert delivery, in order
    rows,             \* SentimentLogger: the rows of the CSV file, in file order
    stored            \* monitored_items.json: the stored fund and stock lists

vars == <<pc, FUND_HOLDINGS, ALL_TICKERS, force_refresh, funds_todo, todo, ticker, attempts,
          response, exc, news_data, fetch_calls, delays, targets, llm_attempts,
          prompt, results, errors, no_news_tickers, csv, sent, retval,
          today, window, requested, invoked, arg, out, scraped, alerts, rows, stored>>

registry  == <<FUND_HOLDINGS, ALL_TICKERS, force_refresh, funds_todo>>

fetching  == <<todo, ticker, attempts, response, exc, news_data, fetch_calls, delays>>

analysing == <<targets, llm_attempts, prompt, results, errors, no_news_tickers>>

clock     == <<today, window, requested>>

calls     == <<arg, out>>

observed  == <<scraped, alerts>>

files     == <<rows, stored>>

NoScrape == [fund |-> "-", outcome |-> "none"]

NoTicker == "-"

EmptyNews == [x \in {} |-> <<>>]

\* faulty variant: the individually tracked symbols are left out
_rebuild_all_tickers_funds_only(fund_holdings) ==
    UNION {fund_holdings[f] : f \in DOMAIN fund_holdings}

\* _rebuild_all_tickers: list(set(...)) of every fund's holdings and the
\* individually tracked symbols
_rebuild_all_tickers(fund_holdings) ==
    UNION {fund_holdings[f] : f \in DOMAIN fund_holdings} \cup Range(Stocks)

(***************************************************************************)
(* The lookback window (finnhub_client.py 165-174).  A moment is a day     *)
(* number and an hour of that day; day 0 is a Monday, as weekday() counts. *)
(* A date string, strftime('%Y-%m-%d'), is modelled by the day number.     *)
(***************************************************************************)
DEFAULT_LOOKBACK_HOURS == 24

WEEKEND_LOOKBACK_HOURS == 72

\* the moments a batch may start at: every day of a week, early and late
Todays == {[day |-> d, hour |-> h] : d \in 7..13, h \in {0, 23}}

Midweek == [day |-> 9, hour |-> 9]

NoWindow == [lookback_hours |-> 0, from_date |-> 0, to_date |-> 0]

NoCall == [fn |-> "none"]

\* DEFAULT_FUNDS and DEFAULT_STOCKS, what load_monitored_items writes when no
\* file is there
DefaultItems ==
    [funds |-> <<Text("FNILX"), Text("FZILX")>>, stocks |-> <<Text("UURAF")>>]

\* datetime.weekday(): Monday is 0, Sunday is 6
weekday(moment) == moment.day % 7

\* faulty variant: the weekend is taken to be Saturday and Sunday
LookbackHours_sat_sun(moment) ==
    IF weekday(moment) \in {5, 6} THEN WEEKEND_LOOKBACK_HOURS ELSE DEFAULT_LOOKBACK_HOURS

\* lines 167-171
LookbackHours(moment) ==
    IF weekday(moment) \in {0, 6} THEN WEEKEND_LOOKBACK_HOURS ELSE DEFAULT_LOOKBACK_HOURS

\* (moment - timedelta(hours=hours)).strftime('%Y-%m-%d')
DateBefore(moment, hours) == (24 * moment.day + moment.hour - hours) \div 24

\* lines 166-174
DateRange(moment) ==
    [lookback_hours |-> LookbackHours(moment),
     from_date      |-> DateBefore(moment, LookbackHours(moment)),
     to_date        |-> DateBefore(moment, 0)]

(***************************************************************************)
(* batch_fetch_news (finnhub_client.py 142-224), one action per step of    *)
(* the loop; _fetch_all_news (main.py 181-200) calls it with ALL_TICKERS.  *)
(***************************************************************************)
\* lines 163-176: news_data = {} and the loop is entered
BatchStart ==
    /\ pc = "fetch_news"
    /\ pc' = "loop"
    /\ todo' = ALL_TICKERS
    /\ news_data' = EmptyNews
    /\ ticker' = NoTicker
    /\ attempts' = 0
    /\ response' = NoResponse
    /\ exc' = "none"
    /\ fetch_calls' = 0
    /\ delays' = 0
    /\ UNCHANGED <<registry, analysing, csv, sent, retval>>
    /\ window' = DateRange(today)
    /\ requested' = {}
    /\ UNCHANGED <<today, invoked, calls, observed, files>>

\* lines 179-184 and 88-89: the next symbol is taken and fetch_company_news is
\* called; an invalid symbol format raises ValueError before any request
FetchCall ==
    /\ pc = "loop"
    /\ \E sym \in todo :
        /\ todo' = todo \ {sym}
        /\ ticker' = sym
        /\ fetch_calls' = fetch_calls + 1
        /\ attempts' = 0
        /\ response' = NoResponse
        /\ IF is_valid_ticker(sym)
           THEN pc' = "request" /\ exc' = "none"
           ELSE pc' = "finally" /\ exc' = "ValueError"
    /\ UNCHANGED <<registry, news_data, delays, analysing, csv, sent, retval>>
    /\ requested' = requested \cup {<<window.from_date, window.to_date>>}
    /\ UNCHANGED <<today, window, invoked, calls, observed, files>>

\* lines 99-140 under the retry decorator of lines 53-61, then lines 186-211:
\* one request; unless it is retried, the call ends and the try block of
\* the loop handles what it returned or raised
Request(feed) ==
    /\ pc = "request"
    /\ \E resp \in Responses(feed[ticker]) :
        LET outcome == RequestOutcome(resp)
        IN  /\ response' = resp
            /\ attempts' = attempts + 1
            /\ IF RetryAgain(outcome, attempts + 1)
               THEN /\ pc' = "request"
                    /\ UNCHANGED <<exc, news_data>>
               ELSE /\ pc' = "finally"
                    /\ exc' = CASE outcome = "retry"  -> "RetryError"
                                [] outcome = "auth"   -> "APIAuthenticationError"
                                [] outcome = "object" -> "AttributeError"
                                [] OTHER              -> "none"
                    /\ news_data' =
                         IF outcome = "list"
                         THEN StoreNews(news_data, ticker, resp.articles)
                         ELSE news_data
    /\ UNCHANGED <<registry, todo, ticker, fetch_calls, delays, analysing, csv, sent, retval>>
    /\ UNCHANGED <<clock, invoked, calls, observed, files>>

\* lines 213-216, then the exception, if re-raised, leaves batch_fetch_news
Finally ==
    /\ pc = "finally"
    /\ delays' = delays + DelayAfter(exc)
    /\ pc' = IF Propagates(exc) THEN "fetch_raised" ELSE "loop"
    /\ attempts' = 0
    /\ response' = NoResponse
    /\ UNCHANGED <<registry, todo, ticker, exc, news_data,
                   fetch_calls, analysing, csv, sent, retval>>
    /\ UNCHANGED <<clock, invoked, calls, observed, files>>

\* lines 218-224 and main.py 196-200: the loop is over, news_data is
\* returned and the locals of the loop are gone
BatchReturn ==
    /\ pc = "loop"
    /\ todo = {}
    /\ pc' = "fetched"
    /\ ticker' = NoTicker
    /\ exc' = "none"
    /\ UNCHANGED <<registry, todo, attempts, response, news_data, fetch_calls, delays,
                   analysing, csv, sent, retval>>
    /\ UNCHANGED <<clock, invoked, calls, observed, files>>

(***************************************************************************)
(* The batch alone, over the whole symbol universe and every article list.  *)
(***************************************************************************)
InitFetch ==
    /\ pc = "fetch_news"
    /\ FUND_HOLDINGS = [f \in Range(Funds) |->
                           IF f = "FNILX" THEN {"AAPL", "N/A"} ELSE {}]
    /\ ALL_TICKERS = _rebuild_all_tickers(FUND_HOLDINGS)
    /\ force_refresh = FALSE
    /\ funds_todo = {}
    /\ todo = {}
    /\ ticker = NoTicker
    /\ attempts = 0
    /\ response = NoResponse
    /\ exc = "none"
    /\ news_data = EmptyNews
    /\ fetch_calls = 0
    /\ delays = 0
    /\ targets = <<>>
    /\ llm_attempts = 0
    /\ prompt = <<>>
    /\ results = <<>>
    /\ errors = <<>>
    /\ no_news_tickers = <<>>
    /\ csv = <<>>
    /\ sent = <<>>
    /\ retval = "none"
    /\ today = Midweek
    /\ window = NoWindow
    /\ requested = {}
    /\ invoked = <<>>
    /\ scraped = NoScrape
    /\ alerts = <<>>
    /\ rows = <<>>
    /\ stored = DefaultItems
    /\ arg = NoCall
    /\ out = NoCall

NextFetch ==
    \/ BatchStart
    \/ FetchCall
    \/ Request(BatchFeed)
    \/ Finally
    \/ BatchReturn

SpecFetch == InitFetch /\ [][NextFetch]_vars

(***************************************************************************)
(* The batch on every day of the week, over a small feed.                  *)
(***************************************************************************)
\* nothing of a run has happened yet
Idle ==
    /\ funds_todo = {}
    /\ todo = {}
    /\ ticker = NoTicker
    /\ attempts = 0
    /\ response = NoResponse
    /\ exc = "none"
    /\ news_data = EmptyNews
    /\ fetch_calls = 0
    /\ delays = 0
    /\ targets = <<>>
    /\ llm_attempts = 0
    /\ prompt = <<>>
    /\ results = <<>>
    /\ errors = <<>>
    /\ no_news_tickers = <<>>
    /\ csv = <<>>
    /\ sent = <<>>
    /\ retval = "none"
    /\ window = NoWindow
    /\ requested = {}
    /\ invoked = <<>>
    /\ scraped = NoScrape
    /\ alerts = <<>>
    /\ rows = <<>>
    /\ stored = DefaultItems

\* no article, or one that names the symbol
QuietFeed == [sym \in Symbols |-> {<<>>, <<ArtHeadline(sym)>>}]

InitWindow ==
    /\ pc = "fetch_news"
    /\ FUND_HOLDINGS = [f \in Range(Funds) |->
                           IF f = "FNILX" THEN {"AAPL", "N/A"} ELSE {}]
    /\ ALL_TICKERS = _rebuild_all_tickers(FUND_HOLDINGS)
    /\ force_refresh = FALSE
    /\ today \in Todays
    /\ Idle
    /\ arg = NoCall
    /\ out = NoCall

NextWindow ==
    \/ BatchStart
    \/ FetchCall
    \/ Request(QuietFeed)
    \/ Finally
    \/ BatchReturn

SpecWindow == InitWindow /\ [][NextWindow]_vars

(***************************************************************************)
(* The registry (src/src/config/tickers.py) and _fetch_fund_holdings       *)
(* (main.py 137-179).  A fund's holdings are modelled by the set of held   *)
(* symbols.                                                                *)
(***************************************************************************)
\* load_holdings_cache at import: what the cache file of a fund may hold
CachedHoldings(fund) == IF fund = "FNILX" THEN {"AAPL"} ELSE {"MSFT"}

\* what HoldingsScraper.get_holdings finds for a fund when it finds any
ScrapedHoldings(fund) == IF fund = "FNILX" THEN {"AAPL", "N/A"} ELSE {"AAPL", "MSFT"}

\* get_fund_holdings: FUND_HOLDINGS.get(fund_symbol, {})
get_fund_holdings(fund_holdings, fund) ==
    IF fund \in DOMAIN fund_holdings THEN fund_holdings[fund] ELSE {}

\* update_fund_holdings_from_scraper (lines 161-175): FUND_HOLDINGS afterwards
update_fund_holdings_from_scraper(fund_holdings, fund, holdings) ==
    [f \in DOMAIN fund_holdings \cup {fund} |->
        IF f = fund THEN holdings ELSE fund_holdings[f]]

\* main.py 71-75: Settings.validate() passes, or raises ValueError
Validate ==
    /\ pc = "start"
    /\ \E config_ok \in BOOLEAN :
        IF config_ok
        THEN pc' = "holdings" /\ funds_todo' = DOMAIN FUND_HOLDINGS /\ exc' = exc
        ELSE pc' = "failed" /\ funds_todo' = funds_todo /\ exc' = "ValueError"
    /\ UNCHANGED <<FUND_HOLDINGS, ALL_TICKERS, force_refresh, todo, ticker, attempts,
                   response, news_data, fetch_calls, delays, analysing, csv, sent, retval>>
    /\ UNCHANGED <<clock, invoked, calls, observed, files>>

\* HoldingsScraper.get_holdings: it returns None, an empty list or a list
\* of holdings, or it raises
ScrapeOutcomes == {"None", "empty", "raises", "holdings"}

\* the holdings in what get_holdings returned
HoldingsOf(fund, outcome) == IF outcome = "holdings" THEN ScrapedHoldings(fund) ELSE {}

\* faulty variant: whatever get_holdings returns is stored
HoldingsFound_any_result(outcome) == outcome # "raises"

\* main.py 171-177: `if holdings:` is reached and true
HoldingsFound(outcome) == outcome = "holdings"

\* main.py 160-179: one fund of the loop
ScrapeFund ==
    /\ pc = "holdings"
    /\ \E fund \in funds_todo :
        /\ funds_todo' = funds_todo \ {fund}
        /\ IF get_fund_holdings(FUND_HOLDINGS, fund) # {} /\ ~force_refresh
           THEN /\ UNCHANGED <<FUND_HOLDINGS, ALL_TICKERS>>
                /\ scraped' = [fund |-> fund, outcome |-> "cached"]
           ELSE \E outcome \in ScrapeOutcomes :
                   /\ scraped' = [fund |-> fund, outcome |-> outcome]
                   /\ IF HoldingsFound(outcome)
                      THEN LET updated == update_fund_holdings_from_scraper(
                                              FUND_HOLDINGS, fund, HoldingsOf(fund, outcome))
                           IN  /\ FUND_HOLDINGS' = updated
                               /\ ALL_TICKERS' = _rebuild_all_tickers(updated)
                      ELSE UNCHANGED <<FUND_HOLDINGS, ALL_TICKERS>>
    /\ UNCHANGED <<pc, force_refresh, fetching, analysing, csv, sent, retval>>
    /\ UNCHANGED <<clock, invoked, calls, alerts, files>>

\* main.py 80-85: get_holdings_summary and the counts read from it
HoldingsDone ==
    /\ pc = "holdings"
    /\ funds_todo = {}
    /\ IF {"FNILX", "FZILX"} \subseteq DOMAIN FUND_HOLDINGS
       THEN pc' = "fetch_news" /\ exc' = exc
       ELSE pc' = "failed" /\ exc' = "KeyError"
    /\ UNCHANGED <<registry, todo, ticker, attempts, response, news_data,
                   fetch_calls, delays, analysing, csv, sent, retval>>
    /\ UNCHANGED <<clock, invoked, calls, alerts, files>>
    /\ scraped' = NoScrape

(***************************************************************************)
(* Messages (telegram_client.py, error_handler.py).  A message is recorded *)
(* with what it was built from and whether Telegram accepted it; no send   *)
(* raises: send_message returns False, send_critical_alert swallows.       *)
(***************************************************************************)
Message(kind, delivered, res, errs, no_news) ==
    [kind |-> kind, delivered |-> delivered,
     results |-> res, errors |-> errs, no_news |-> no_news]

\* faulty variant: the results report is formatted whatever the results
ReportKind_always_results(analysis_results) == "daily_report"

\* send_daily_report (lines 222-240): which report is formatted
ReportKind(analysis_results) ==
    IF Len(analysis_results) > 0 THEN "daily_report" ELSE "error_report"

\* format_report takes the results, format_error_report is called without them
daily_report(delivered, analysis_results, errs, no_news) ==
    IF ReportKind(analysis_results) = "daily_report"
    THEN Message("daily_report", delivered, analysis_results, errs, no_news)
    ELSE Message("error_report", delivered, <<>>, errs, no_news)

Kinds(log) == [i \in DOMAIN log |-> log[i].kind]

Count(kind, log) == Cardinality({i \in DOMAIN log : log[i].kind = kind})

\* requests.post in send_critical_alert: status 200, another status, or an
\* exception
AlertOutcomes == {"200", "status", "throws"}

\* faulty variant: the exception of requests.post is not caught
send_critical_alert_unguarded(outcome) ==
    [raised |-> outcome = "throws", delivered |-> outcome = "200"]

\* send_critical_alert (error_handler.py 47-65): whether it raises and
\* whether the alert was delivered
send_critical_alert(outcome) == [raised |-> FALSE, delivered |-> outcome = "200"]

\* the decorator alert_on_failure around _fetch_all_news (error_handler.py
\* 83-99): a critical alert, then the exception is raised again
AlertOnFailure ==
    /\ pc = "fetch_raised"
    /\ \E outcome \in AlertOutcomes :
        LET alert == send_critical_alert(outcome)
        IN  /\ sent' = Append(sent, Message("critical_alert", alert.delivered,
                                            <<>>, <<>>, <<>>))
            /\ alerts' = Append(alerts, outcome)
            /\ exc' = IF alert.raised THEN "RequestException" ELSE exc
    /\ pc' = "failed"
    /\ UNCHANGED <<registry, todo, ticker, attempts, response, news_data,
                   fetch_calls, delays, analysing, csv, retval>>
    /\ UNCHANGED <<clock, invoked, calls, scraped, files>>

\* main.py 123-135: what the except clause that catches e sends
HandlerMessage(e) ==
    IF e = "APIAuthenticationError" THEN "critical_alert" ELSE "error_notification"

\* faulty variant: a handled failure counts as a success
HandlerReturn_success(e) == TRUE

\* main.py 130, 135: what the except clauses return
HandlerReturn(e) == FALSE

\* main.py 123-135: the two except clauses of run; the first sends with
\* send_critical_alert, the second with TelegramClient.send_error_notification
RunExcept ==
    /\ pc = "failed"
    /\ IF HandlerMessage(exc) = "critical_alert"
       THEN \E outcome \in AlertOutcomes :
               LET alert == send_critical_alert(outcome)
               IN  /\ sent' = Append(sent, Message("critical_alert", alert.delivered,
                                                   <<>>, <<>>, <<>>))
                   /\ alerts' = Append(alerts, outcome)
                   /\ IF alert.raised
                      THEN pc' = "crashed" /\ UNCHANGED retval
                      ELSE pc' = "done" /\ retval' = HandlerReturn(exc)
       ELSE /\ \E delivered \in BOOLEAN :
                 sent' = Append(sent, Message(HandlerMessage(exc), delivered,
                                              <<>>, <<>>, <<>>))
            /\ retval' = HandlerReturn(exc)
            /\ pc' = "done"
            /\ UNCHANGED alerts
    /\ UNCHANGED <<registry, fetching, analysing, csv>>
    /\ UNCHANGED <<clock, invoked, calls, scraped, files>>

\* main() (lines 409-425): the exit status for what run returned
ExitStatus(success) == IF success = TRUE THEN 0 ELSE 1

(***************************************************************************)
(* run after the fetch (main.py 91-121).                                   *)
(***************************************************************************)
RECURSIVE SumLen(_, _)
SumLen(nd, keys) ==
    IF keys = {} THEN 0
    ELSE LET k == CHOOSE x \in keys : TRUE
         IN  Len(nd[k]) + SumLen(nd, keys \ {k})

\* sum(len(articles) for articles in news_data.values())
total_articles(nd) == SumLen(nd, DOMAIN nd)

\* faulty variant: the comparison with zero is strict
IsQuiet_strict(nd) == total_articles(nd) < 0

\* main.py 95: the market-quiet test
IsQuiet(nd) == total_articles(nd) = 0

\* get_all_funds() then get_individual_tickers(): the targets in order
AnalysisTargets == Funds \o Stocks

\* main.py 92-103: market quiet, or on to the analysis
CheckQuiet ==
    /\ pc = "fetched"
    /\ IF IsQuiet(news_data)
       THEN /\ \E delivered \in BOOLEAN :
                 sent' = Append(sent, Message("market_quiet", delivered, <<>>, <<>>, <<>>))
            /\ retval' = TRUE
            /\ pc' = "done"
            /\ UNCHANGED analysing
       ELSE /\ pc' = "analyze"
            /\ targets' = AnalysisTargets
            /\ results' = <<>>
            /\ errors' = <<>>
            /\ no_news_tickers' = <<>>
            /\ UNCHANGED <<llm_attempts, prompt, sent, retval>>
    /\ UNCHANGED <<registry, fetching, csv>>
    /\ invoked' = IF IsQuiet(news_data) THEN invoked ELSE <<>>
    /\ UNCHANGED <<clock, calls, observed, files>>

(***************************************************************************)
(* _analyze_sentiment (main.py 250-356), one action per target and one per *)
(* backend call.                                                           *)
(***************************************************************************)
\* the order in which the scraper lists the symbols, which is the order the
\* holdings dict keeps
ListingOrder == <<"AAPL", "MSFT", "N/A", "UURAF">>

\* the symbols of a set in the order the dict holds them
OrderOf(S) == SelectSeq(ListingOrder, LAMBDA x : x \in S)

\* main.py 275-279 and 321: the symbols of a target that are in the news
ActiveSymbols(fund_holdings, nd, target) ==
    IF target \in Range(Funds)
    THEN get_fund_holdings(fund_holdings, target) \cap DOMAIN nd
    ELSE {target} \cap DOMAIN nd

\* main.py 291 and 330: the news_count given to a record
NewsCount(nd, active) == SumLen(nd, active)

RECURSIVE PromptOver(_, _)
PromptOver(nd, syms) ==
    IF syms = <<>> THEN <<>>
    ELSE PromptArticles(Head(syms), nd[Head(syms)]) \o PromptOver(nd, Tail(syms))

\* main.py 202-248: the classification put in an ErrorRecord
_format_error_detail(e) ==
    IF e.type \in {"ValueError", "KeyError"}
       /\ e.msg = "No valid JSON found in LLM response"
    THEN "LLM returned invalid format - analysis failed"
    ELSE IF e.type = "InsufficientDataError"
    THEN "Insufficient data for analysis"
    ELSE e.msg

ErrorRecord(target, e) ==
    [ticker |-> target, error |-> _format_error_detail(e), type |-> e.type]

\* faulty variant: one more call after the third failure
LlmRetryAgain_inclusive(attempt_number) == attempt_number <= LLM_MAX_ATTEMPTS

\* stop_after_attempt(3) on _call_llm, every exception retried
LlmRetryAgain(attempt_number) == attempt_number < LLM_MAX_ATTEMPTS

\* faulty variant: the failure is logged but no record is appended
CatchTargetError_dropped(errs, target, e) == errs

\* the except clauses of lines 296-312 and 335-351: the errors list afterwards
CatchTargetError(errs, target, e) == Append(errs, ErrorRecord(target, e))

\* lines 270-281, 313-322, 352-354: the next target has news, or has none
AnalyzeNext ==
    /\ pc = "analyze"
    /\ targets # <<>>
    /\ LET target == Head(targets)
           active == ActiveSymbols(FUND_HOLDINGS, news_data, target)
       IN  IF active = {}
           THEN /\ no_news_tickers' = Append(no_news_tickers, target)
                /\ targets' = Tail(targets)
                /\ UNCHANGED <<pc, llm_attempts, prompt>>
           ELSE /\ pc' = "llm"
                /\ llm_attempts' = 0
                /\ prompt' = PromptOver(news_data, OrderOf(active))
                /\ UNCHANGED <<targets, no_news_tickers>>
    /\ UNCHANGED <<registry, fetching, results, errors, csv, sent, retval>>
    /\ invoked' = IF ActiveSymbols(FUND_HOLDINGS, news_data, Head(targets)) = {}
                  THEN invoked ELSE Append(invoked, Head(targets))
    /\ UNCHANGED <<clock, calls, observed, files>>

\* groq_client.py 46-88 and 231-249 / 291-309, then main.py 283-312 /
\* 323-351: one backend call; it fails and is retried, or fails for the
\* last time, or answers, and the answer is parsed, checked and validated
CallLLM(replies) ==
    /\ pc = "llm"
    /\ LET target == Head(targets)
           count  == NewsCount(news_data,
                               ActiveSymbols(FUND_HOLDINGS, news_data, target))
       IN  \/ /\ LlmRetryAgain(llm_attempts + 1)
              /\ llm_attempts' = llm_attempts + 1
              /\ UNCHANGED <<pc, targets, results, errors>>
           \/ /\ ~LlmRetryAgain(llm_attempts + 1)
              /\ llm_attempts' = 0
              /\ errors' = CatchTargetError(errors, target,
                               Raise("RetryError", "RetryError", <<>>, JNull))
              /\ targets' = Tail(targets)
              /\ pc' = "analyze"
              /\ UNCHANGED results
           \/ \E response_text \in replies[target] :
                 LET outcome == AnalyzeResponse(response_text)
                 IN  /\ IF outcome.raised
                        THEN /\ errors' = CatchTargetError(errors, target, outcome.exc)
                             /\ UNCHANGED results
                        ELSE /\ results' = Append(results,
                                     With(outcome.value, "news_count", JInt(count)))
                             /\ UNCHANGED errors
                     /\ targets' = Tail(targets)
                     /\ llm_attempts' = 0
                     /\ pc' = "analyze"
    /\ UNCHANGED <<registry, fetching, prompt, no_news_tickers, csv, sent, retval>>
    /\ UNCHANGED <<clock, invoked, calls, observed, files>>

\* main.py 356 and 105-107
AnalyzeDone ==
    /\ pc = "analyze"
    /\ targets = <<>>
    /\ pc' = "log"
    /\ csv' = <<>>
    /\ UNCHANGED <<registry, fetching, analysing, sent, retval>>
    /\ UNCHANGED <<clock, invoked, calls, observed, files>>

(***************************************************************************)
(* _log_results (main.py 358-371) and _send_report (main.py 373-406).      *)
(***************************************************************************)
\* faulty variant: the append is not wrapped in try/except, its failure leaves the loop
AfterAppend_unguarded(ok) == IF ok THEN "log" ELSE "failed"

\* main.py 367-371: where the loop goes after an append that succeeded or raised
AfterAppend(ok) == "log"

\* one record of the loop: append_result succeeds, or raises and is logged
LogResult ==
    /\ pc = "log"
    /\ Len(csv) < Len(results)
    /\ \E ok \in BOOLEAN :
        /\ csv' = Append(csv, [ticker |-> results[Len(csv) + 1]["ticker"], ok |-> ok])
        /\ pc' = AfterAppend(ok)
        /\ exc' = IF AfterAppend(ok) = "failed" THEN "Exception" ELSE exc
    /\ UNCHANGED <<registry, todo, ticker, attempts, response, news_data,
                   fetch_calls, delays, analysing, sent, retval>>
    /\ UNCHANGED <<clock, invoked, calls, observed, files>>

\* main.py 109-121: the report is sent and run returns
SendReport ==
    /\ pc = "log"
    /\ Len(csv) = Len(results)
    /\ \E delivered \in BOOLEAN :
        sent' = Append(sent, daily_report(delivered, results, errors, no_news_tickers))
    /\ retval' = (Len(results) > 0)
    /\ pc' = "done"
    /\ UNCHANGED <<registry, fetching, analysing, csv>>
    /\ UNCHANGED <<clock, invoked, calls, observed, files>>

(***************************************************************************)
(* The whole run.                                                          *)
(***************************************************************************)
\* the article lists the provider answers with in a whole run
RunFeed ==
    [sym \in Symbols |->
        {<<ArtLate(sym)>>, <<ArtLong(sym), ArtNoise, ArtHeadline(sym), ArtHeadline(sym)>>}]

Rationale == <<"S","t","r","o","n","g"," ","e","a","r","n","i","n","g","s"," ",
               "b","e","a","t",".">>

GoodObject(target) ==
    [k \in Range(required_fields) |->
        CASE k = "ticker"          -> JStr(Text(target))
          [] k = "sentiment_score" -> JInt(7)
          [] k = "top_insights"    -> JList(<<Markets, Markets>>)
          [] k = "rationale"       -> JStr(Rationale)]

\* a record that validation accepts and rewrites: a score of 7.5, four
\* insights, a rationale of exactly 20 characters
LooseObject(target) ==
    [k \in Range(required_fields) |->
        CASE k = "ticker"          -> JStr(Text(target))
          [] k = "sentiment_score" -> JFloat(75)
          [] k = "top_insights"    -> JList(<<Markets, Pad(1), Pad(2), Pad(3)>>)
          [] k = "rationale"       -> JStr(Pad(20))]

\* the answers of the LLM backend in a whole run: a valid record, a fenced
\* record declaring Insufficient Data, a record with a score out of range
\* inside noise, and text with no JSON; for the symbol tracked on its own
\* also a record that validation rewrites
RunReplies ==
    [target \in Range(AnalysisTargets) |->
        {<<ObjTok(GoodObject(target))>>,
         <<Tok("noise"), Tok("fence"), Tok("tag"),
           ObjTok(With(GoodObject(target), "rationale",
                       JStr(Rationale \o InsufficientMarker))),
           Tok("fence")>>,
         <<Tok("noise"), ObjTok(With(GoodObject(target), "sentiment_score", JInt(11))),
           Tok("noise")>>,
         <<Tok("noise")>>}
        \cup (IF target \in Range(Stocks) THEN {<<ObjTok(LooseObject(target))>>} ELSE {})]

Init ==
    /\ pc = "start"
    /\ FUND_HOLDINGS \in {fh \in [Range(Funds) -> SUBSET Symbols] :
                             \A f \in Range(Funds) : fh[f] \in {{}, CachedHoldings(f)}}
    /\ ALL_TICKERS = _rebuild_all_tickers(FUND_HOLDINGS)
    /\ force_refresh \in BOOLEAN
    /\ funds_todo = {}
    /\ todo = {}
    /\ ticker = NoTicker
    /\ attempts = 0
    /\ response = NoResponse
    /\ exc = "none"
    /\ news_data = EmptyNews
    /\ fetch_calls = 0
    /\ delays = 0
    /\ targets = <<>>
    /\ llm_attempts = 0
    /\ prompt = <<>>
    /\ results = <<>>
    /\ errors = <<>>
    /\ no_news_tickers = <<>>
    /\ csv = <<>>
    /\ sent = <<>>
    /\ retval = "none"
    /\ today = Midweek
    /\ window = NoWindow
    /\ requested = {}
    /\ invoked = <<>>
    /\ scraped = NoScrape
    /\ alerts = <<>>
    /\ rows = <<>>
    /\ stored = DefaultItems
    /\ arg = NoCall
    /\ out = NoCall

Next ==
    \/ Validate
    \/ ScrapeFund
    \/ HoldingsDone
    \/ BatchStart
    \/ FetchCall
    \/ Request(RunFeed)
    \/ Finally
    \/ BatchReturn
    \/ AlertOnFailure
    \/ RunExcept
    \/ CheckQuiet
    \/ AnalyzeNext
    \/ CallLLM(RunReplies)
    \/ AnalyzeDone
    \/ LogResult
    \/ SendReport

Spec == Init /\ [][Next]_vars

(***************************************************************************)
(* Properties of batch_fetch_news, checked under SpecFetch.                *)
(***************************************************************************)
\* C6: the inter-call delay is applied exactly once after each symbol's
\* fetch call, whatever the call ended in (articles, nothing, a skipped
\* error, an authentication failure): whenever the loop is between two
\* iterations or over, as many delays as fetch calls have been made, and
\* while a call is in progress exactly one delay is outstanding, so no fetch
\* call starts before the delay of the previous one.
C6_DelayPerCall ==
    /\ pc \in {"loop", "fetched", "fetch_raised"} => delays = fetch_calls
    /\ pc \in {"request", "finally"} => delays = fetch_calls - 1

\* two calls have been made, the second ended in an authentication failure
\* that left the batch, and two delays were applied
C6_Witness ==
    /\ pc = "fetch_raised"
    /\ exc = "APIAuthenticationError"
    /\ fetch_calls = 2
    /\ delays = 2

\* the fetch of the current symbol failed or returned nothing usable
FetchFailed ==
    /\ pc = "finally"
    /\ \/ exc \in {"ValueError", "RetryError", "AttributeError"}
       \/ exc = "none" /\ response.kind # "json"

C7_State ==
    /\ pc = "fetch_raised" => exc = "APIAuthenticationError"
    /\ FetchFailed => ticker \notin DOMAIN news_data
    /\ pc = "fetched" => todo = {} /\ fetch_calls = Cardinality(ALL_TICKERS)

C7_Step ==
    /\ pc # "fetch_news" =>
          \A sym \in DOMAIN news_data :
              sym \in DOMAIN news_data' /\ news_data'[sym] = news_data[sym]
    /\ FetchFailed /\ exc # "none" => pc' = "loop" /\ todo' = todo

\* C7: a fetch error other than an authentication failure (invalid symbol
\* format, transport error, non-200 status, exhausted rate-limit retries)
\* never aborts the batch: the symbol is absent from the result, the loop
\* goes on to the symbols still to visit and ends only when all have been
\* fetched, and no entry already collected is ever removed or changed.
C7_ErrorSkipsSymbol == []C7_State /\ [][C7_Step]_vars

\* the batch returned after visiting all three symbols, one of which has an
\* invalid format, and holds the two others
C7_Witness ==
    /\ pc = "fetched"
    /\ "N/A" \in ALL_TICKERS
    /\ DOMAIN news_data = {"AAPL", "UURAF"}

RelevantOf(sym, articles) ==
    SelectSeq(articles, LAMBDA a : Mentioned(sym, a))

\* C9: the mapping never holds an empty list; after a symbol's fetch the
\* symbol is a key iff at least one fetched article passed the relevance
\* filter, and its list is the first MAX_ARTICLES_PER_TICKER relevant
\* articles in retrieval order.
C9_NoEmptyListFirstRelevant ==
    /\ \A sym \in DOMAIN news_data :
          /\ news_data[sym] # <<>>
          /\ Len(news_data[sym]) <= MAX_ARTICLES_PER_TICKER
    /\ pc = "finally" =>
          LET relevant == RelevantOf(ticker, response.articles)
          IN  /\ ticker \in DOMAIN news_data <=> relevant # <<>>
              /\ ticker \in DOMAIN news_data =>
                    news_data[ticker] =
                        SubSeq(relevant, 1,
                               IF Len(relevant) < MAX_ARTICLES_PER_TICKER
                               THEN Len(relevant) ELSE MAX_ARTICLES_PER_TICKER)

\* three articles were fetched, all three relevant, and the first two, which
\* differ, were kept in the order they came
C9_Witness ==
    /\ pc = "finally"
    /\ Len(response.articles) = MAX_ARTICLES_PER_TICKER + 1
    /\ response.articles[1] # response.articles[2]
    /\ RelevantOf(ticker, response.articles) = response.articles
    /\ ticker \in DOMAIN news_data
    /\ news_data[ticker] = <<response.articles[1], response.articles[2]>>

(***************************************************************************)
(* Properties of the whole run, checked under Spec.                        *)
(***************************************************************************)
\* the positions in a message log of the daily reports of either form
Reports(log) == {i \in DOMAIN log : log[i].kind \in {"daily_report", "error_report"}}

\* C1: when the fetch completes with no article at all, run sends exactly
\* one market-quiet notification and nothing else, prepares no prompt and
\* makes no LLM call, appends nothing to the CSV, sends no daily report and
\* returns True; the analysis is entered only with at least one article.
C1_MarketQuiet ==
    /\ pc \in {"analyze", "llm", "log"} => total_articles(news_data) > 0
    /\ pc = "done" /\ exc = "none" /\ total_articles(news_data) = 0 =>
          /\ Kinds(sent) = <<"market_quiet">>
          /\ retval = TRUE
          /\ prompt = <<>> /\ llm_attempts = 0
          /\ results = <<>> /\ errors = <<>> /\ no_news_tickers = <<>>
          /\ csv = <<>>

\* every symbol was fetched, none had a relevant article, and run returned
\* True after the market-quiet notification
C1_Witness ==
    /\ pc = "done"
    /\ retval = TRUE
    /\ fetch_calls = Cardinality(ALL_TICKERS) /\ fetch_calls > 1
    /\ total_articles(news_data) = 0
    /\ Kinds(sent) = <<"market_quiet">>

C2_State ==
    exc = "APIAuthenticationError" =>
        /\ pc \in {"finally", "fetch_raised", "failed", "done"}
        /\ fetch_calls + Cardinality(todo) = Cardinality(ALL_TICKERS)
        /\ prompt = <<>> /\ results = <<>> /\ errors = <<>> /\ csv = <<>>
        /\ Reports(sent) = {} /\ Count("market_quiet", sent) = 0
        /\ pc = "done" =>
              /\ Count("critical_alert", sent) >= 1
              /\ retval = FALSE
              /\ ExitStatus(retval) = 1

C2_Step ==
    exc = "APIAuthenticationError" =>
        fetch_calls' = fetch_calls /\ todo' = todo /\ pc' \notin {"loop", "request"}

\* C2: once the fetch of a symbol signals an authentication failure, no fetch
\* is issued for any symbol still to visit and the failure leaves
\* batch_fetch_news; run then makes no LLM analysis, no CSV append and no
\* daily report, sends a critical alert and returns False, for which the
\* process exits with status 1.
C2_AuthFailureAborts == []C2_State /\ [][C2_Step]_vars

\* the run ended on an authentication failure with symbols left unvisited
C2_Witness ==
    /\ pc = "done"
    /\ exc = "APIAuthenticationError"
    /\ todo # {}
    /\ fetch_calls >= 1
    /\ retval = FALSE
    /\ Count("critical_alert", sent) >= 1

\* the targets _analyze_sentiment has dealt with so far, in order
Processed == SubSeq(AnalysisTargets, 1, Len(AnalysisTargets) - Len(targets))

HasNews(target) == ActiveSymbols(FUND_HOLDINGS, news_data, target) # {}

ErrorTargets == [i \in DOMAIN errors |-> errors[i].ticker]

ResultTargets == [i \in DOMAIN results |-> results[i]["ticker"].s]

\* C3: during and after _analyze_sentiment the targets dealt with so far are
\* partitioned, in order and without repetition, into those with a record in
\* results, those with exactly one ErrorRecord in errors, and those without
\* news; a failure of one target (validation, parsing, Insufficient Data,
\* exhausted LLM call) leaves the records of the others in place, and the
\* persistence step is reached only when no target is left.
C3_FailuresIsolated ==
    pc \in {"analyze", "llm", "log"} =>
        /\ ErrorTargets = SelectSeq(Processed, LAMBDA t : t \in Range(ErrorTargets))
        /\ ResultTargets =
              [i \in DOMAIN results |->
                  Text(SelectSeq(Processed,
                           LAMBDA t : Text(t) \in Range(ResultTargets))[i])]
        /\ no_news_tickers = SelectSeq(Processed, LAMBDA t : ~HasNews(t))
        /\ \A t \in Range(ErrorTargets) : HasNews(t) /\ Text(t) \notin Range(ResultTargets)
        /\ Len(results) + Len(errors) + Len(no_news_tickers) = Len(Processed)
        /\ pc = "log" => targets = <<>>

\* the first target failed on an exhausted LLM call, the second succeeded,
\* the third failed on Insufficient Data
C3_Witness ==
    /\ pc = "log"
    /\ Len(errors) = 2
    /\ errors[1].ticker = "FNILX" /\ errors[1].type = "RetryError"
    /\ errors[2].ticker = "UURAF" /\ errors[2].type = "InsufficientDataError"
    /\ ResultTargets = <<Text("FZILX")>>

\* C4: a run that reaches the analysis sends the daily report exactly once,
\* as its last message, after every target has been dealt with and an append
\* attempted for every record: the results report built from results, errors
\* and the no-news list when there is a record, otherwise the error-only
\* report built from errors and the no-news list.
C4_ReportExactlyOnce ==
    /\ Cardinality(Reports(sent)) <= 1
    /\ Reports(sent) # {} =>
          /\ pc = "done"
          /\ targets = <<>>
          /\ Len(results) + Len(errors) + Len(no_news_tickers) = Len(AnalysisTargets)
          /\ Len(csv) = Len(results)
          /\ Reports(sent) = {Len(sent)}
          /\ LET report == sent[Len(sent)]
             IN  /\ report.kind = IF results # <<>> THEN "daily_report" ELSE "error_report"
                 /\ report.results = results
                 /\ report.errors = errors
                 /\ report.no_news = no_news_tickers
    /\ pc = "done" /\ exc = "none" /\ total_articles(news_data) > 0 =>
          Cardinality(Reports(sent)) = 1

\* every target had news and failed; the error-only report was sent
C4_Witness ==
    /\ pc = "done"
    /\ results = <<>>
    /\ Len(errors) = Len(AnalysisTargets)
    /\ Kinds(sent) = <<"error_report">>
    /\ sent[1].errors = errors

\* C5: the appends are attempted once per record of results, in the order
\* of results; an append that fails does not stop the loop: nothing but the
\* next append or the report follows it, and when run is over an append was
\* attempted for every record and the report was sent.
C5_AppendEachRecord ==
    /\ Len(csv) <= Len(results)
    /\ \A i \in DOMAIN csv : csv[i].ticker = results[i]["ticker"]
    /\ csv # <<>> => pc \in {"log", "done"}
    /\ pc = "done" /\ results # <<>> =>
          /\ Len(csv) = Len(results)
          /\ Cardinality(Reports(sent)) = 1

\* the first append failed, the second was made and succeeded, and the
\* report went out
C5_Witness ==
    /\ pc = "done"
    /\ Len(csv) = 2
    /\ ~csv[1].ok
    /\ csv[2].ok
    /\ csv[1].ticker # csv[2].ticker
    /\ Kinds(sent) = <<"daily_report">>

SundayOrMonday == weekday(today) = 6 \/ weekday(today) = 0

\* C12: once batch_fetch_news has computed its window, the lookback is the
\* weekend lookback (72 hours) iff the batch started on a Sunday or a Monday
\* and the default lookback (24 hours) on every other day; the date range
\* ends today and starts that many hours earlier, and every call of
\* fetch_company_news of the batch was given that one range.
C12_WeekendLookback ==
    pc \in {"loop", "request", "finally", "fetched", "fetch_raised"} =>
        /\ SundayOrMonday <=> window.lookback_hours = WEEKEND_LOOKBACK_HOURS
        /\ ~SundayOrMonday <=> window.lookback_hours = DEFAULT_LOOKBACK_HOURS
        /\ window.to_date = today.day
        /\ 24 * (window.to_date - window.from_date) = window.lookback_hours
        /\ requested \subseteq {<<window.from_date, window.to_date>>}
        /\ fetch_calls > 0 => requested # {}

\* a batch that started on a Monday fetched all three symbols over the
\* three days before
C12_Witness ==
    /\ pc = "fetched"
    /\ weekday(today) = 0
    /\ fetch_calls = 3
    /\ requested = {<<today.day - 3, today.day>>}

(***************************************************************************)
(* Functions called on their own.  arg holds the function and its          *)
(* arguments, out what the call returned or raised.                        *)
(***************************************************************************)
Call(fn, sym, articles, text, record) ==
    [fn |-> fn, sym |-> sym, articles |-> articles, text |-> text, record |-> record]

\* a run that is not under way, with a call to make
InitCall(the_calls) ==
    /\ pc = "call"
    /\ FUND_HOLDINGS = [f \in Range(Funds) |-> {}]
    /\ ALL_TICKERS = _rebuild_all_tickers(FUND_HOLDINGS)
    /\ force_refresh = FALSE
    /\ today = Midweek
    /\ Idle
    /\ arg \in the_calls
    /\ out = NoCall

Return(value) ==
    /\ out' = value
    /\ pc' = "returned"
    /\ UNCHANGED <<registry, fetching, analysing, csv, sent, retval,
                   clock, invoked, arg, observed, files>>

(***************************************************************************)
(* _filter_relevant_articles (finnhub_client.py 226-266) on every list of  *)
(* at most MaxFetched articles.                                            *)
(***************************************************************************)
\* the symbol in lower case right at the end of the first 100 characters
ArtEdge(sym) ==
    [headline |-> Markets, summary |-> Pad(100 - Len(Text(sym))) \o Lower(Text(sym))]

\* the company name in upper case in the headline
ArtShout(sym) ==
    [headline |-> Upper(TICKER_METADATA(sym)) \o <<" ">> \o Markets, summary |-> <<>>]

FilterPool(sym) == Pool(sym) \cup {ArtEdge(sym), ArtShout(sym)}

FilterCalls ==
    {Call("filter", sym, articles, <<>>, EmptyObject) :
        sym \in Symbols, articles \in SeqsUpTo(FilterPool("AAPL") \cup {ArtShout("MSFT")},
                                               MaxFetched)}

CallFilter ==
    /\ pc = "call"
    /\ arg.fn = "filter"
    /\ Return(_filter_relevant_articles(arg.sym, arg.articles))

InitFilter == InitCall(FilterCalls)

NextFilter == CallFilter

SpecFilter == InitFilter /\ [][NextFilter]_vars

\* a character with its case folded
Fold(c) == IF c \in UpperSet THEN LowerLetters[IndexOf(c, UpperLetters)] ELSE c

\* name occurs in text somewhere, whatever the case of either
Occurs(name, text) ==
    \E start \in 1..(Len(text) - Len(name) + 1) :
        \A j \in DOMAIN name : Fold(text[start + j - 1]) = Fold(name[j])

\* the symbol or its company name occurs in the headline or within the
\* first 100 characters of the summary
Names(sym, article) ==
    \E name \in {Text(sym), TICKER_METADATA(sym)} :
        \/ Occurs(name, article.headline)
        \/ Occurs(name, [i \in {k \in DOMAIN article.summary : k <= 100} |->
                             article.summary[i]])

\* C11: _filter_relevant_articles keeps an article iff the symbol or the
\* mapped company name occurs, in whatever case, in the headline or in the
\* first 100 characters of the summary; what it returns is the kept
\* articles in the order they came, so an occurrence only after character
\* 100 of the summary keeps nothing.
C11_RelevanceFilter ==
    pc = "returned" /\ arg.fn = "filter" =>
        out = SelectSeq(arg.articles, LAMBDA a : Names(arg.sym, a))

\* of an article naming the symbol only from character 99 on, one naming it
\* in lower case in characters 97..100 and one naming the company in upper
\* case at the start of a long summary, the last two are kept, in order
C11_Witness ==
    /\ pc = "returned"
    /\ arg.fn = "filter"
    /\ arg.sym = "AAPL"
    /\ arg.articles = <<ArtLate("AAPL"), ArtEdge("AAPL"), ArtLong("AAPL")>>
    /\ out = <<ArtEdge("AAPL"), ArtLong("AAPL")>>

(***************************************************************************)
(* _validate_result (groq_client.py 137-169) and the handling of an        *)
(* answer (231-249, 291-309) on records whose four fields each range over  *)
(* absent, well-formed and ill-formed values.                              *)
(***************************************************************************)
MaxScore == 12

MaxInsights == 5

\* the field is not in the record
Absent == [type |-> "absent", n |-> 0, s |-> <<>>, items |-> <<>>]

TickerValues == {Absent, JStr(Text("AAPL"))}

\* integers around the range, numbers with a fraction of .0 and .9, strings
\* that int() accepts and strings it rejects, null and a list
ScoreValues ==
    {Absent, JNull, JList(<<>>)}
    \cup {JInt(n) : n \in -1..MaxScore}
    \cup {JFloat(10 * n + d) : n \in 0..(MaxScore - 1), d \in {0, 9}}
    \cup {JStr(x) : x \in {<<"7">>, <<" ","1","0"," ">>, <<"1","1">>,
                          <<"7",".","5">>, <<"h","i","g","h">>}}

Entries(n) == [i \in 1..n |-> Pad(i)]

InsightValues ==
    {Absent, JNull, JStr(Markets)} \cup {JList(Entries(n)) : n \in 0..MaxInsights}

\* strings around 20 characters, strings declaring Insufficient Data (one
\* short, one long), a list holding that declaration, a number and null
RationaleValues ==
    {Absent, JNull, JInt(5), JList(<<InsufficientMarker>>),
     JStr(InsufficientMarker), JStr(Pad(10) \o InsufficientMarker \o Pad(3))}
    \cup {JStr(Pad(n)) : n \in {0, 19, 20, 21}}

MakeRecord(ticker_value, score, insights, rationale) ==
    LET field(k) == CASE k = "ticker"          -> ticker_value
                      [] k = "sentiment_score" -> score
                      [] k = "top_insights"    -> insights
                      [] k = "rationale"       -> rationale
    IN  [k \in {x \in Range(required_fields) : field(x) # Absent} |-> field(k)]

Records ==
    {MakeRecord(t, sc, ins, rat) :
        t \in TickerValues, sc \in ScoreValues,
        ins \in InsightValues, rat \in RationaleValues}

\* each record is validated, and is the answer of an analysis; an analysis
\* is also answered with JSON that is not an object, and with no JSON
RecordCalls ==
    {Call("validate", "-", <<>>, <<>>, r) : r \in Records}
    \cup {Call("analyze", "-", <<>>, <<ObjTok(r)>>, r) : r \in Records}
    \cup {Call("analyze", "-", <<>>, <<Tok(t)>>, EmptyObject) : t \in {"arr", "noise"}}

CallValidate ==
    /\ pc = "call"
    /\ arg.fn = "validate"
    /\ Return(_validate_result(arg.record))

CallAnalyze ==
    /\ pc = "call"
    /\ arg.fn = "analyze"
    /\ Return(AnalyzeResponse(arg.text))

InitRecord == InitCall(RecordCalls)

NextRecord == CallValidate \/ CallAnalyze

SpecRecord == InitRecord /\ [][NextRecord]_vars

\* the rationale of the record is a string declaring Insufficient Data
DeclaresInsufficient(record) ==
    /\ "rationale" \in DOMAIN record
    /\ record["rationale"].type = "str"
    /\ \E i \in 1..(Len(record["rationale"].s) - Len(InsufficientMarker) + 1) :
          SubSeq(record["rationale"].s, i, i + Len(InsufficientMarker) - 1)
              = InsufficientMarker

\* C13: when the rationale of the extracted record contains "Insufficient
\* Data", the analysis raises InsufficientDataError whatever the rest of the
\* record: fields missing, score out of range, top_insights empty, or all
\* of it valid.
C13_InsufficientFirst ==
    pc = "returned" /\ arg.fn = "analyze" /\ DeclaresInsufficient(arg.record) =>
        out.raised /\ out.exc.type = "InsufficientDataError"

\* a record without ticker, with score 11 and no insight declares
\* Insufficient Data, and that is what is raised
C13_Witness ==
    /\ pc = "returned"
    /\ arg.fn = "analyze"
    /\ arg.record = MakeRecord(Absent, JInt(11), JList(<<>>),
                               JStr(Pad(10) \o InsufficientMarker \o Pad(3)))
    /\ out.raised
    /\ out.exc.type = "InsufficientDataError"

(***************************************************************************)
(* The rules of _validate_result, one field at a time.                     *)
(***************************************************************************)
Complete(record) == \A f \in Range(required_fields) : f \in DOMAIN record

\* what the record format asks of each field
InsightsFine(v) == v.type = "list" /\ v.items # <<>>

RationaleFine(v) == v.type = "str" /\ Len(v.s) >= 20

\* ten times a number
Tenths(v) == IF v.type = "int" THEN 10 * v.n ELSE v.n

IsNumber(v) == v.type \in {"int", "float"}

\* C15: for a record that is valid apart from its score, and a score s that
\* is a number, _validate_result succeeds iff 1 <= s <= 10; on success the
\* stored score is an integer, on failure the message carries the raw value.
C15_ScoreIffInRange ==
    ( /\ pc = "returned"
      /\ arg.fn = "validate"
      /\ Complete(arg.record)
      /\ InsightsFine(arg.record["top_insights"])
      /\ RationaleFine(arg.record["rationale"])
      /\ IsNumber(arg.record["sentiment_score"]) ) =>
        LET s == arg.record["sentiment_score"]
        IN  /\ ~out.raised <=> (10 <= Tenths(s) /\ Tenths(s) <= 100)
            /\ ~out.raised => out.value["sentiment_score"].type = "int"
            /\ out.raised => /\ out.exc.msg = "Invalid sentiment_score"
                             /\ out.exc.raw = s

ScoreFine(v) == IntOf(v).ok /\ IntOf(v).n \in 1..10

\* C16: for a record that is valid apart from top_insights, validation fails
\* iff top_insights is not a list or is empty; a list of n >= 1 entries
\* succeeds and the stored top_insights is its first min(n, 3) entries, in
\* order.
C16_InsightsRule ==
    ( /\ pc = "returned"
      /\ arg.fn = "validate"
      /\ Complete(arg.record)
      /\ ScoreFine(arg.record["sentiment_score"])
      /\ RationaleFine(arg.record["rationale"]) ) =>
        LET v    == arg.record["top_insights"]
            n    == Len(v.items)
            kept == IF n < 3 THEN n ELSE 3
        IN  /\ out.raised <=> (v.type # "list" \/ n = 0)
            /\ out.raised =>
                  out.exc.msg = "top_insights must be a non-empty list"
            /\ ~out.raised =>
                  out.value["top_insights"] = JList([i \in 1..kept |-> v.items[i]])

\* five insights were given, the first three are stored
C16_Witness ==
    /\ pc = "returned"
    /\ arg.fn = "validate"
    /\ Complete(arg.record)
    /\ arg.record["top_insights"] = JList(Entries(5))
    /\ ~out.raised
    /\ out.value["top_insights"] = JList(<<Pad(1), Pad(2), Pad(3)>>)

\* C17: for a record that is valid apart from its rationale, validation
\* fails iff the rationale is not a string or is shorter than 20
\* characters; a rationale of exactly 20 characters succeeds.
C17_RationaleRule ==
    ( /\ pc = "returned"
      /\ arg.fn = "validate"
      /\ Complete(arg.record)
      /\ ScoreFine(arg.record["sentiment_score"])
      /\ InsightsFine(arg.record["top_insights"]) ) =>
        LET v == arg.record["rationale"]
        IN  /\ out.raised <=> (v.type # "str" \/ Len(v.s) < 20)
            /\ out.raised => out.exc.msg = "Rationale too short or not a string"
            /\ ~out.raised => out.value["rationale"] = v

\* a rationale of exactly 20 characters is accepted
C17_Witness ==
    /\ pc = "returned"
    /\ arg.fn = "validate"
    /\ Complete(arg.record)
    /\ arg.record["rationale"].type = "str"
    /\ Len(arg.record["rationale"].s) = 20
    /\ ~out.raised

\* C20: _validate_result checks the required fields, then the score, then
\* top_insights, then the rationale: the failure reported is that of the
\* earliest rule the record violates, and a failure for missing fields lists
\* exactly the absent ones.
C20_EarliestRuleReported ==
    pc = "returned" /\ arg.fn = "validate" =>
        LET r      == arg.record
            absent == {f \in Range(required_fields) : f \notin DOMAIN r}
        IN  CASE absent # {} ->
                    /\ out.raised
                    /\ out.exc.msg = "Missing required fields"
                    /\ Range(out.exc.missing) = absent
                    /\ Len(out.exc.missing) = Cardinality(absent)
              [] absent = {} /\ ~ScoreFine(r["sentiment_score"]) ->
                    out.raised /\ out.exc.msg = "Invalid sentiment_score"
              [] /\ absent = {}
                 /\ ScoreFine(r["sentiment_score"])
                 /\ ~InsightsFine(r["top_insights"]) ->
                    /\ out.raised
                    /\ out.exc.msg = "top_insights must be a non-empty list"
              [] /\ absent = {}
                 /\ ScoreFine(r["sentiment_score"])
                 /\ InsightsFine(r["top_insights"])
                 /\ ~RationaleFine(r["rationale"]) ->
                    /\ out.raised
                    /\ out.exc.msg = "Rationale too short or not a string"
              [] OTHER -> ~out.raised

\* score 11, no insight and a rationale of 19 characters: the score is
\* what is reported
C20_Witness ==
    /\ pc = "returned"
    /\ arg.fn = "validate"
    /\ arg.record = MakeRecord(JStr(Text("AAPL")), JInt(11), JList(<<>>), JStr(Pad(19)))
    /\ out.raised
    /\ out.exc.msg = "Invalid sentiment_score"

(***************************************************************************)
(* parse_llm_response (groq_client.py 90-135) on every text of up to       *)
(* MaxTokens tokens.                                                       *)
(***************************************************************************)
MaxTokens == 4

\* two JSON objects an answer may hold
Objects == {[ticker |-> JStr(Text("AAPL"))], GoodObject("MSFT")}

Alphabet ==
    {ObjTok(J) : J \in Objects}
    \cup {Tok(t) : t \in {"arr", "fence", "tag", "open", "close", "noise"}}

ParseCalls ==
    {Call("parse", "-", <<>>, text, EmptyObject) : text \in SeqsUpTo(Alphabet, MaxTokens)}

CallParse ==
    /\ pc = "call"
    /\ arg.fn = "parse"
    /\ Return(parse_llm_response(arg.text))

InitParse == InitCall(ParseCalls)

NextParse == CallParse

SpecParse == InitParse /\ [][NextParse]_vars

\* the text is the JSON of J and nothing else
Bare(text, J) == text = <<ObjTok(J)>>

\* the first fence of the text opens a block, tagged json or not, that
\* holds the JSON of J; any text may follow the block, and any text without
\* a fence may precede it
Fenced(text, J) ==
    \E p \in DOMAIN text :
        /\ text[p].t = "fence"
        /\ \A q \in 1..(p - 1) : text[q].t # "fence"
        /\ \/ /\ p + 2 \in DOMAIN text
              /\ text[p + 1] = ObjTok(J)
              /\ text[p + 2].t = "fence"
           \/ /\ p + 3 \in DOMAIN text
              /\ text[p + 1].t = "tag"
              /\ text[p + 2] = ObjTok(J)
              /\ text[p + 3].t = "fence"

\* the JSON of J with text around it that holds no brace
Noisy(text, J) ==
    \E p \in DOMAIN text :
        /\ text[p] = ObjTok(J)
        /\ \A q \in DOMAIN text \ {p} : text[q].t \notin {"obj", "open", "close"}

\* C18: parse_llm_response yields the object J for the bare JSON of J, for
\* J in a fenced code block (tagged json or not) with text around it, and
\* for J surrounded by text without braces; the block is tried before the
\* braces, so an object in the first block wins over what follows it; a text
\* in which nothing parses raises ValueError "No valid JSON found in LLM
\* response".
C18_SameObject ==
    pc = "returned" /\ arg.fn = "parse" =>
        /\ \A J \in Objects :
              Bare(arg.text, J) \/ Fenced(arg.text, J) \/ Noisy(arg.text, J) =>
                  ~out.raised /\ out.dict /\ out.value = J
        /\ out.raised =>
              /\ out.exc.type = "ValueError"
              /\ out.exc.msg = "No valid JSON found in LLM response"
        /\ ( /\ \A q \in DOMAIN arg.text : arg.text[q].t \notin {"obj", "open", "close"}
             /\ arg.text # <<Tok("arr")>> ) => out.raised

\* an untagged block holding one object, followed by another object: the
\* object of the block is the result
C18_Witness ==
    /\ pc = "returned"
    /\ arg.fn = "parse"
    /\ \E J \in Objects : \E K \in Objects \ {J} :
          /\ arg.text = <<Tok("fence"), ObjTok(J), Tok("fence"), ObjTok(K)>>
          /\ ~out.raised
          /\ out.value = J

(***************************************************************************)
(* The invocations of the analysis and the calls of the LLM backend in a   *)
(* run.                                                                    *)
(***************************************************************************)
\* a fund with a holding among the fetched news, or a symbol tracked on its
\* own that is among them
InNews(target) ==
    IF target \in Range(Funds)
    THEN \E holding \in FUND_HOLDINGS[target] : holding \in DOMAIN news_data
    ELSE target \in DOMAIN news_data

\* the targets the loop has come to so far
Started ==
    SubSeq(AnalysisTargets, 1,
           Len(AnalysisTargets) - Len(targets) + (IF pc = "llm" THEN 1 ELSE 0))

C14_State ==
    /\ pc \in {"analyze", "llm", "log"} => invoked = SelectSeq(Started, InNews)
    /\ pc = "llm" => llm_attempts + 1 <= 3

\* a step of an invocation calls the backend: the call failed and another
\* follows, or the invocation is over with one more record or error
C14_Step ==
    pc = "llm" =>
        \/ /\ pc' = "llm"
           /\ llm_attempts' = llm_attempts + 1
           /\ UNCHANGED <<targets, results, errors, invoked>>
        \/ /\ pc' = "analyze"
           /\ targets' = Tail(targets)
           /\ invoked' = invoked
           /\ Len(results') + Len(errors') = Len(results) + Len(errors) + 1
           /\ \/ Len(results') = Len(results) + 1
              \/ errors'[Len(errors')].type # "RetryError"
              \/ llm_attempts + 1 = 3

\* C14: in one run the analysis is invoked exactly once, in order, for each
\* fund with a holding in the fetched news and each individually tracked
\* symbol in the fetched news, and for no other target; one invocation calls
\* the backend at most 3 times, again only after a call that failed, and
\* an answer, whatever parsing and validation make of it, ends the
\* invocation.
C14_OncePerTargetInNews == []C14_State /\ [][C14_Step]_vars

\* the analysis is over: a target was skipped for lack of news, two were
\* analysed, one of them after three failed calls and one from an answer
C14_Witness ==
    /\ pc = "log"
    /\ Len(invoked) = 2
    /\ no_news_tickers # <<>>
    /\ \E i \in DOMAIN errors : errors[i].type = "RetryError"
    /\ results # <<>>

(***************************************************************************)
(* The records of the results list.                                        *)
(***************************************************************************)
MentionsInsufficient(text) ==
    \E i \in 1..(Len(text) - Len(InsufficientMarker) + 1) :
        SubSeq(text, i, i + Len(InsufficientMarker) - 1) = InsufficientMarker

\* C19: every record in the results list has an integer sentiment_score in
\* 1..10, between 1 and 3 top_insights, a rationale that is a string of at
\* least 20 characters without "Insufficient Data", and a news_count of at
\* least 1.
C19_ResultsWellFormed ==
    \A i \in DOMAIN results :
        LET record == results[i]
        IN  /\ {"sentiment_score", "top_insights", "rationale", "news_count"}
                  \subseteq DOMAIN record
            /\ record["sentiment_score"].type = "int"
            /\ record["sentiment_score"].n \in 1..10
            /\ record["top_insights"].type = "list"
            /\ Len(record["top_insights"].items) \in 1..3
            /\ record["rationale"].type = "str"
            /\ Len(record["rationale"].s) >= 20
            /\ ~MentionsInsufficient(record["rationale"].s)
            /\ record["news_count"].type = "int"
            /\ record["news_count"].n >= 1

\* the results hold a record whose answer gave a score of 7.5 and four
\* insights: it is stored with score 7 and the first three insights
C19_Witness ==
    /\ pc = "log"
    /\ \E i \in DOMAIN results :
          /\ results[i]["ticker"] = JStr(Text("UURAF"))
          /\ results[i]["sentiment_score"] = JInt(7)
          /\ results[i]["top_insights"] = JList(<<Markets, Pad(1), Pad(2)>>)
          /\ results[i]["rationale"] = JStr(Pad(20))
    /\ Len(results) >= 2

(***************************************************************************)
(* _fetch_fund_holdings and the registry.                                  *)
(***************************************************************************)
C21_State == pc = "fetch_news" => funds_todo = {}

\* a step of the loop of _fetch_fund_holdings
C21_Step ==
    pc = "holdings" /\ funds_todo' # funds_todo =>
        LET fund    == scraped'.fund
            outcome == scraped'.outcome
        IN  /\ fund \in funds_todo
            /\ funds_todo' = funds_todo \ {fund}
            /\ pc' = "holdings"
            /\ outcome \in {"None", "empty", "raises"} =>
                  FUND_HOLDINGS' = FUND_HOLDINGS /\ ALL_TICKERS' = ALL_TICKERS
            /\ \A f \in DOMAIN FUND_HOLDINGS \ {fund} :
                  f \in DOMAIN FUND_HOLDINGS' /\ FUND_HOLDINGS'[f] = FUND_HOLDINGS[f]
            /\ FUND_HOLDINGS' # FUND_HOLDINGS =>
                  outcome = "holdings" /\ FUND_HOLDINGS'[fund] # {}

\* C21: when the scraper returns None or an empty list, or raises, for a
\* fund, the holdings of that fund and the symbol universe stay as they
\* were and the loop goes on to the funds still to visit, all of which are
\* visited before the news fetch; the holdings of a fund are replaced only
\* by a non-empty scraper result, and only those of that fund.
C21_MissKeepsHoldings == []C21_State /\ [][C21_Step]_vars

\* a refresh was forced, the scraper gave an empty list for a fund whose
\* cached holdings are still there, and another fund is still to visit
C21_Witness ==
    /\ pc = "holdings"
    /\ force_refresh
    /\ scraped.outcome = "empty"
    /\ FUND_HOLDINGS[scraped.fund] = CachedHoldings(scraped.fund)
    /\ funds_todo # {}

\* every symbol held by a registered fund or tracked on its own
Universe ==
    {sym \in Symbols :
        \/ \E f \in DOMAIN FUND_HOLDINGS : sym \in FUND_HOLDINGS[f]
        \/ \E i \in DOMAIN Stocks : Stocks[i] = sym}

C26_State == ALL_TICKERS = Universe

C26_Step ==
    /\ FUND_HOLDINGS' # FUND_HOLDINGS =>
          \E fund \in DOMAIN FUND_HOLDINGS' :
              \A f \in DOMAIN FUND_HOLDINGS \ {fund} :
                  f \in DOMAIN FUND_HOLDINGS' /\ FUND_HOLDINGS'[f] = FUND_HOLDINGS[f]
    /\ pc = "fetch_news" /\ pc' = "loop" => todo' = Universe

\* C26: after initialisation and after every update_fund_holdings_from_scraper
\* the symbol universe ALL_TICKERS is exactly the union of the holdings of
\* every registered fund and the individually tracked symbols, and that is
\* what the news fetch visits; an update changes the holdings of one fund
\* and of no other.
C26_UniverseIsUnion == []C26_State /\ [][C26_Step]_vars

\* both funds were refreshed with holdings that share a symbol: the
\* universe holds it along with the others and the symbol tracked on its own
C26_Witness ==
    /\ pc = "loop"
    /\ FUND_HOLDINGS["FNILX"] = {"AAPL", "N/A"}
    /\ FUND_HOLDINGS["FZILX"] = {"AAPL", "MSFT"}
    /\ ALL_TICKERS = {"AAPL", "MSFT", "N/A", "UURAF"}
    /\ todo = ALL_TICKERS

(***************************************************************************)
(* Critical alerts.                                                        *)
(***************************************************************************)
\* run never ends with an exception of its own
C22_State == pc # "crashed"

\* a step in which send_critical_alert was called
C22_Step ==
    alerts' # alerts =>
        /\ Len(sent') = Len(sent) + 1
        /\ sent'[Len(sent')].kind = "critical_alert"
        /\ sent'[Len(sent')].delivered = (alerts'[Len(alerts')] = "200")
        /\ pc = "fetch_raised" => pc' = "failed" /\ exc' = exc
        /\ pc = "failed" => pc' = "done" /\ retval' = FALSE

\* C22: send_critical_alert returns normally whether the delivery is
\* answered with status 200, with another status, or throws: the decorator
\* alert_on_failure then raises the exception of the wrapped function again,
\* unchanged, and the except clause of run returns False, so what run
\* returns never depends on the delivery of an alert.
C22_AlertNeverRaises == []C22_State /\ [][C22_Step]_vars

\* the delivery threw in the decorator and was refused in run: run returned
\* False after the authentication failure
C22_Witness ==
    /\ pc = "done"
    /\ alerts = <<"throws", "status">>
    /\ exc = "APIAuthenticationError"
    /\ retval = FALSE

\* C30: in a single run at most one critical alert is sent: an
\* authentication failure of the news fetch triggers it exactly once, and a
\* run with no top-level failure sends none.
C30_OneCriticalAlert ==
    /\ Count("critical_alert", sent) <= 1
    /\ pc = "done" /\ exc = "APIAuthenticationError" =>
          Count("critical_alert", sent) = 1
    /\ pc = "done" /\ exc = "none" => Count("critical_alert", sent) = 0

(***************************************************************************)
(* _analyze_sentiment (main.py 250-356) on its own, for every set of       *)
(* symbols in the news, with answers whose ticker field is the target's    *)
(* and answers whose ticker field is another symbol's.                     *)
(***************************************************************************)
NewsOver(syms) == [sym \in syms |-> <<ArtHeadline(sym)>>]

\* the record the backend answers with names the target, or names a symbol
\* of its own choosing; or the answer holds no JSON
EchoReplies ==
    [target \in Range(AnalysisTargets) |->
        {<<ObjTok(GoodObject(target))>>,
         <<ObjTok(GoodObject("AAPL"))>>,
         <<Tok("noise")>>}]

InitAnalysis ==
    /\ pc = "fetched"
    /\ FUND_HOLDINGS = [f \in Range(Funds) |-> CachedHoldings(f)]
    /\ ALL_TICKERS = _rebuild_all_tickers(FUND_HOLDINGS)
    /\ force_refresh = FALSE
    /\ today = Midweek
    /\ funds_todo = {}
    /\ todo = {}
    /\ ticker = NoTicker
    /\ attempts = 0
    /\ response = NoResponse
    /\ exc = "none"
    /\ \E syms \in SUBSET ALL_TICKERS : news_data = NewsOver(syms)
    /\ fetch_calls = Cardinality(ALL_TICKERS)
    /\ delays = Cardinality(ALL_TICKERS)
    /\ targets = <<>>
    /\ llm_attempts = 0
    /\ prompt = <<>>
    /\ results = <<>>
    /\ errors = <<>>
    /\ no_news_tickers = <<>>
    /\ csv = <<>>
    /\ sent = <<>>
    /\ retval = "none"
    /\ window = DateRange(today)
    /\ requested = {}
    /\ invoked = <<>>
    /\ scraped = NoScrape
    /\ alerts = <<>>
    /\ rows = <<>>
    /\ stored = DefaultItems
    /\ arg = NoCall
    /\ out = NoCall

NextAnalysis == CheckQuiet \/ AnalyzeNext \/ CallLLM(EchoReplies) \/ AnalyzeDone

SpecAnalysis == InitAnalysis /\ [][NextAnalysis]_vars

\* the outputs a target appears in, results being read by record ticker
OutputsOf(target) ==
    {o \in {"results", "errors", "no_news"} :
        \/ o = "results" /\ \E i \in DOMAIN results : results[i]["ticker"] = JStr(Text(target))
        \/ o = "errors" /\ \E i \in DOMAIN errors : errors[i].ticker = target
        \/ o = "no_news" /\ \E i \in DOMAIN no_news_tickers : no_news_tickers[i] = target}

\* C28: when _analyze_sentiment returns, every target is in exactly one of
\* results (by the ticker of the record), errors and the no-news list; it is
\* in the no-news list iff none of its symbols is a key of the news; and the
\* three lists together have as many entries as there are targets.
C28_EveryTargetInOneOutput ==
    pc = "log" =>
        /\ \A target \in Range(AnalysisTargets) :
              /\ Cardinality(OutputsOf(target)) = 1
              /\ "no_news" \in OutputsOf(target) <=> ~InNews(target)
        /\ Len(results) + Len(errors) + Len(no_news_tickers) = Len(AnalysisTargets)

(***************************************************************************)
(* What run returns.                                                       *)
(***************************************************************************)
\* run ended in one of its except clauses
TopLevelFailure ==
    sent # <<>> /\ sent[Len(sent)].kind \in {"critical_alert", "error_notification"}

QuietPath == Kinds(sent) = <<"market_quiet">>

\* C29: run returns True exactly when it took the market-quiet path or
\* produced at least one record; it returns False after an authentication
\* failure, after any other exception caught at top level, and when the
\* analysis was reached and no target gave a record, although the
\* error-only report was sent.
C29_ReturnValue ==
    pc = "done" =>
        /\ retval = (QuietPath \/ (~TopLevelFailure /\ results # <<>>))
        /\ TopLevelFailure => retval = FALSE
        /\ exc = "APIAuthenticationError" => retval = FALSE
        /\ (\E i \in DOMAIN sent : sent[i].kind = "error_report") =>
              results = <<>> /\ retval = FALSE
        /\ ExitStatus(retval) = (IF retval THEN 0 ELSE 1)

\* every target failed or declared Insufficient Data, the error-only report
\* was delivered, and run returned False
C29_Witness ==
    /\ pc = "done"
    /\ Kinds(sent) = <<"error_report">>
    /\ sent[1].delivered
    /\ \E i \in DOMAIN errors : errors[i].type = "InsufficientDataError"
    /\ results = <<>>
    /\ retval = FALSE

(***************************************************************************)
(* The article records of a prompt (groq_client.py 196-212, 274-283), for  *)
(* every list of articles given to the two analyses.                       *)
(***************************************************************************)
\* a summary of exactly MAX_SUMMARY_LENGTH characters, and one more
ArtBrim(sym) ==
    [headline |-> Markets,
     summary  |-> Text(sym) \o Pad(MAX_SUMMARY_LENGTH - Len(Text(sym)))]

ArtOver(sym) ==
    [headline |-> Markets,
     summary  |-> Text(sym) \o Pad(MAX_SUMMARY_LENGTH - Len(Text(sym)) + 1)]

PromptPool == {ArtHeadline("AAPL"), ArtLong("AAPL"), ArtNoise, ArtBrim("AAPL"), ArtOver("AAPL")}

PromptCalls ==
    {Call(fn, "AAPL", articles, <<>>, EmptyObject) :
        fn \in {"individual", "aggregate"},
        articles \in SeqsUpTo(PromptPool, MaxFetched) \ {<<>>}}

\* analyze_individual_sentiment: the records built from articles
CallIndividual ==
    /\ pc = "call"
    /\ arg.fn = "individual"
    /\ Return(PromptArticles(arg.sym, arg.articles))

\* analyze_aggregate_sentiment on a dict of two holdings with the same news
CallAggregate ==
    /\ pc = "call"
    /\ arg.fn = "aggregate"
    /\ Return(PromptOver([sym \in {"AAPL", "MSFT"} |-> arg.articles], <<"AAPL", "MSFT">>))

InitPrompt == InitCall(PromptCalls)

NextPrompt == CallIndividual \/ CallAggregate

SpecPrompt == InitPrompt /\ [][NextPrompt]_vars

IsPrefix(short, long) ==
    /\ Len(short) <= Len(long)
    /\ \A k \in DOMAIN short : short[k] = long[k]

\* the article a record of the prompt was built from
SourceOf(i) == arg.articles[((i - 1) % Len(arg.articles)) + 1]

C25_State ==
    pc = "returned" /\ arg.fn \in {"individual", "aggregate"} =>
        /\ Len(out) = Len(arg.articles) * (IF arg.fn = "aggregate" THEN 2 ELSE 1)
        /\ \A i \in DOMAIN out :
              /\ Len(out[i].summary) <= 200
              /\ IsPrefix(out[i].summary, SourceOf(i).summary)
              /\ Len(SourceOf(i).summary) <= 200 => out[i].summary = SourceOf(i).summary
              /\ out[i].headline = SourceOf(i).headline

\* the articles of the caller stay as they were given
C25_Step == arg' = arg

\* C25: for any articles given to analyze_aggregate_sentiment or
\* analyze_individual_sentiment, every summary in the article records of the
\* prompt is at most MAX_SUMMARY_LENGTH (200) characters long and is a prefix
\* of the summary it was taken from, whole when that one is short enough;
\* the caller's article records are not modified.
C25_PromptSummariesBounded == []C25_State /\ [][C25_Step]_vars

\* summaries of 200, 201 and 250-odd characters were given to the aggregate
\* analysis: each is in the prompt with its first 200 characters
C25_Witness ==
    /\ pc = "returned"
    /\ arg.fn = "aggregate"
    /\ arg.articles = <<ArtBrim("AAPL"), ArtOver("AAPL"), ArtLong("AAPL")>>
    /\ \A i \in DOMAIN out : Len(out[i].summary) = 200
    /\ out[3].summary = SubSeq(ArtLong("AAPL").summary, 1, 200)

\* C27: whatever the text of the LLM answer, an analysis ends in one of
\* three ways: a validated record is returned, InsufficientDataError is
\* raised, or a ValueError for a parsing or validation failure is raised;
\* that includes an answer that is JSON but not an object and a record whose
\* rationale is not a string.
C27_ThreeOutcomes ==
    pc = "returned" /\ arg.fn = "analyze" =>
        \/ ~out.raised /\ ~_validate_result(out.value).raised
        \/ out.raised /\ out.exc.type \in {"InsufficientDataError", "ValueError"}

(***************************************************************************)
(* SentimentLogger (src/src/storage/csv_logger.py) used on its own: a      *)
(* logger over a new file, and append_sentiment called up to MaxRows times *)
(* over LogDays days.                                                      *)
(***************************************************************************)
MaxRows == 3

LogDays == 2

LogTickers == {"AAPL", "MSFT"}

LogScores == {5, 8}

\* datetime.now() at an append: a day and an hour of it
LogMoments == [day : 1..LogDays, hour : {9, 17}]

NotBefore(now, then) ==
    \/ now.day > then.day
    \/ now.day = then.day /\ now.hour >= then.hour

\* append_sentiment: read the file, concatenate the new row, write it back
append_sentiment(file, now, tkr, sentiment_score, success) ==
    Append(file, [timestamp       |-> now,
                  ticker          |-> tkr,
                  sentiment_score |-> IF success THEN JInt(sentiment_score) ELSE JNull,
                  success         |-> success])

\* SentimentLogger(csv_path) over a path where no file is: the header alone
InitLogger ==
    /\ pc = "logging"
    /\ FUND_HOLDINGS = [f \in Range(Funds) |-> {}]
    /\ ALL_TICKERS = _rebuild_all_tickers(FUND_HOLDINGS)
    /\ force_refresh = FALSE
    /\ today = Midweek
    /\ Idle
    /\ arg = NoCall
    /\ out = NoCall

AppendSentiment ==
    /\ pc = "logging"
    /\ Len(rows) < MaxRows
    /\ \E now \in LogMoments, tkr \in LogTickers, score \in LogScores, success \in BOOLEAN :
        /\ rows # <<>> => NotBefore(now, rows[Len(rows)].timestamp)
        /\ rows' = append_sentiment(rows, now, tkr, score, success)
    /\ UNCHANGED <<pc, registry, fetching, analysing, csv, sent, retval,
                   clock, invoked, calls, observed, stored>>

NextLogger == AppendSentiment

SpecLogger == InitLogger /\ [][NextLogger]_vars

\* C23: after any sequence of append_sentiment calls on one SentimentLogger
\* the file holds at most one row for a ticker and a day, and the row of a
\* ticker appended twice on one day carries the values of the later append.
C23_OneRowPerTickerDay ==
    \A i \in DOMAIN rows : \A j \in DOMAIN rows :
        /\ rows[i].ticker = rows[j].ticker
        /\ rows[i].timestamp.day = rows[j].timestamp.day
        => i = j

(***************************************************************************)
(* The monitored items (src/src/utils/persistence.py) as manage_items.py   *)
(* drives them: save_monitored_items, add_item and remove_item in any      *)
(* order over the stored lists.  Writing the file is taken to succeed.     *)
(***************************************************************************)
\* ord(c) of a letter
CodePoint(c) ==
    IF c \in UpperSet
    THEN 64 + IndexOf(c, UpperLetters)
    ELSE 96 + IndexOf(c, LowerLetters)

\* a < b on str
RECURSIVE Before(_, _)
Before(a, b) ==
    IF a = <<>> THEN b # <<>>
    ELSE IF b = <<>> THEN FALSE
    ELSE IF a[1] = b[1] THEN Before(Tail(a), Tail(b))
    ELSE CodePoint(a[1]) < CodePoint(b[1])

\* sorted(list(S))
RECURSIVE sorted(_)
sorted(S) ==
    IF S = {} THEN <<>>
    ELSE LET least == CHOOSE x \in S : \A y \in S \ {x} : Before(x, y)
         IN  <<least>> \o sorted(S \ {least})

\* faulty variant: the lists are written as they were given
save_monitored_items_as_given(funds, stocks) ==
    [funds |-> funds, stocks |-> stocks]

\* save_monitored_items: what the file holds after it
save_monitored_items(funds, stocks) ==
    [funds  |-> sorted({Upper(f) : f \in Range(funds)}),
     stocks |-> sorted({Upper(x) : x \in Range(stocks)})]

\* list.remove(x): the first occurrence goes
RemoveFirst(list, x) ==
    LET at == CHOOSE i \in DOMAIN list : list[i] = x /\ \A j \in 1..(i - 1) : list[j] # x
    IN  SubSeq(list, 1, at - 1) \o SubSeq(list, at + 1, Len(list))

\* add_item over the loaded items: what it returns and what the file holds
add_item(items, symbol, is_fund) ==
    LET key == IF is_fund THEN "funds" ELSE "stocks"
    IN  IF Upper(symbol) \notin Range(items[key])
        THEN LET appended == [items EXCEPT ![key] = Append(@, Upper(symbol))]
             IN  [returned |-> appended,
                  file     |-> save_monitored_items(appended.funds, appended.stocks)]
        ELSE [returned |-> items, file |-> items]

\* remove_item over the loaded items: what it returns and what the file holds
remove_item(items, symbol) ==
    LET drop(list) == IF Upper(symbol) \in Range(list)
                      THEN RemoveFirst(list, Upper(symbol)) ELSE list
        left == [funds |-> drop(items.funds), stocks |-> drop(items.stocks)]
    IN  [returned |-> left, file |-> save_monitored_items(left.funds, left.stocks)]

\* the symbols given to add_item and remove_item, in either case
ItemNames ==
    {Text("AAPL"), Lower(Text("AAPL")), Text("MSFT"), Lower(Text("MSFT")),
     Text("UURAF"), Lower(Text("UURAF")), Text("FNILX")}

\* lists given to save_monitored_items: empty, lower-case, repeated, unsorted
SaveLists ==
    {<<>>,
     <<Lower(Text("FNILX"))>>,
     <<Lower(Text("AAPL")), Text("AAPL")>>,
     <<Text("MSFT"), Text("AAPL"), Lower(Text("MSFT"))>>,
     <<Text("UURAF"), Text("FZILX"), Text("UURAF")>>}

InitItems ==
    /\ pc = "managing"
    /\ FUND_HOLDINGS = [f \in Range(Funds) |-> {}]
    /\ ALL_TICKERS = _rebuild_all_tickers(FUND_HOLDINGS)
    /\ force_refresh = FALSE
    /\ today = Midweek
    /\ Idle
    /\ arg = NoCall
    /\ out = NoCall

ItemsRest == <<pc, registry, fetching, analysing, csv, sent, retval,
               clock, invoked, observed, rows>>

SaveItems ==
    /\ pc = "managing"
    /\ \E funds \in SaveLists, stocks \in SaveLists :
        /\ arg' = [fn |-> "save_monitored_items", funds |-> funds, stocks |-> stocks]
        /\ stored' = save_monitored_items(funds, stocks)
        /\ out' = NoCall
    /\ UNCHANGED ItemsRest

AddItem ==
    /\ pc = "managing"
    /\ \E symbol \in ItemNames, is_fund \in BOOLEAN :
        /\ arg' = [fn |-> "add_item", symbol |-> symbol, is_fund |-> is_fund]
        /\ stored' = add_item(stored, symbol, is_fund).file
        /\ out' = add_item(stored, symbol, is_fund).returned
    /\ UNCHANGED ItemsRest

RemoveItem ==
    /\ pc = "managing"
    /\ \E symbol \in ItemNames :
        /\ arg' = [fn |-> "remove_item", symbol |-> symbol]
        /\ stored' = remove_item(stored, symbol).file
        /\ out' = remove_item(stored, symbol).returned
    /\ UNCHANGED ItemsRest

NextItems == SaveItems \/ AddItem \/ RemoveItem

SpecItems == InitItems /\ [][NextItems]_vars

\* a stored list: upper-case symbols, none of them twice
Normalised(list) ==
    /\ \A i \in DOMAIN list : Upper(list[i]) = list[i]
    /\ \A i \in DOMAIN list : \A j \in DOMAIN list : list[i] = list[j] => i = j

C24_State == Normalised(stored.funds) /\ Normalised(stored.stocks)

\* what a call of add_item or remove_item does to the stored lists
C24_Step ==
    LET call == arg'
        held(items, key) == Range(items[key])
    IN  /\ call.fn = "add_item" =>
            LET key == IF call.is_fund THEN "funds" ELSE "stocks"
            IN  /\ Upper(call.symbol) \in held(stored, key) => stored' = stored
                /\ held(stored', key) = held(stored, key) \cup {Upper(call.symbol)}
                /\ \A other \in {"funds", "stocks"} \ {key} : stored'[other] = stored[other]
        /\ call.fn = "remove_item" =>
            \A key \in {"funds", "stocks"} :
                held(stored', key) = held(stored, key) \ {Upper(call.symbol)}

====
